---- MODULE Spec2Model ----
(***************************************************************************)
(* The ETL Automation Tool's client: the zustand store useETLStore (its    *)
(* state, synchronous actions and async API actions), the React controls   *)
(* that drive it, and the backend as the environment answering each        *)
(* request.                                                                *)
(*                                                                         *)
(* JavaScript runs to completion: a step of the model is one macrotask (a  *)
(* click, a response arriving) or one microtask (an awaiting caller        *)
(* resuming after its callee returned).  Clicks and responses only happen  *)
(* when no microtask is pending.  A run is one page session: reloading the *)
(* page starts a new run from Init.                                        *)
(***************************************************************************)
EXTENDS Naturals, Integers, Sequences, FiniteSets, TLC

VARIABLES
    currentStep,    \* ETLState.currentStep
    isLoading,      \* ETLState.isLoading
    error,          \* ETLState.error (NoText = null)
    sessionData,    \* ETLState.sessionData
    tasks,          \* the async calls in progress: each a call stack and its request history
    srvFile,        \* backend: id of the file its session holds (0 = none); file ids count up
    offered,        \* backend: the columns get-lookup-columns offered for srvFile
    discarded,      \* history: highest file id whose session was discarded by resetSession
    failures,       \* backend: the requests it has failed so far
    last,           \* history: the step just taken
    activeSection,  \* ETLDashboard: the section on display
    dashboard,      \* Dashboard's local state while it is mounted
    bom,            \* BOMAnalysis's local state while it is mounted
    engine,         \* backend: the session's cleaned tables and its stored lookup
    theme,          \* ThemeProvider's state, localStorage['etl-theme'] and the document root
    seen,           \* history: what ThemeProvider found at mount, and the themes shown
                    \* once its effects had settled and after each toggle
    health,         \* useAPIHealth's state, its timers, its checks in flight, the backend
    added           \* history: every log entry addLog was called with, in call order

\* the store and the backend it talks to
workflow == <<currentStep, isLoading, error, sessionData, tasks, srvFile, offered,
              discarded, failures, last, engine>>

\* the components outside the step-by-step workflow
monitor == <<health, added>>

views == <<activeSection, dashboard, bom, theme, seen, monitor>>

vars == <<currentStep, isLoading, error, sessionData, tasks, srvFile, offered, discarded,
          failures, last, engine, views>>

---------------------------------------------------------------------------
(* Bounds of the model *)

\* successful uploads the backend serves (file ids 1..MaxUploads)
MaxUploads == 2
\* log entries kept by addLog: the source keeps 50 (part_001:232); the
\* window is scaled down so that the state space stays finite and small
MaxLogs == 1
\* async calls started and not yet returned
MaxTasks == 2
\* requests the backend fails in one run
MaxFailures == 1
\* the uploads served where one file is worked through
OneFile == 1

---------------------------------------------------------------------------
(* Values *)

\* null for string-valued fields, 0 for null results
NoText == "null"
NoFile == 0

\* a `previews` object: the file it was fetched for and its two sheets
NoPreviews == [file |-> NoFile, master |-> NoText, target |-> NoText]

\* the files a user can drop, and the sheet lists a workbook can have
FileNames == {"bom.xlsx"}
SheetLists == {<<"A">>, <<"A", "B">>}
\* the column lists get-lookup-columns can answer
ColumnLists == {<<>>, <<"REF", "PN">>}

\* the sequences of at most n elements of a set
SeqsUpTo(set, n) == UNION {[1..k -> set] : k \in 0..n}

Range(seq) == {seq[i] : i \in 1..Len(seq)}

LastN(seq, n) == IF Len(seq) <= n THEN seq ELSE SubSeq(seq, Len(seq) - n + 1, Len(seq))

EmptyCache == [k \in {} |-> NoPreviews]

initialSessionData ==
    [fileId |-> NoFile,
     filename |-> NoText,
     sheetNames |-> <<>>,
     masterSheet |-> NoText,
     targetSheet |-> NoText,
     previewData |-> NoPreviews,
     cleanResult |-> NoFile,
     columnInsights |-> NoFile,
     availableColumns |-> <<>>,
     lookupResult |-> NoFile,
     lookupInsights |-> NoFile,
     updateResult |-> NoFile,
     sharepointConfig |-> NoFile,
     logs |-> <<>>,
     cache |-> EmptyCache]

---------------------------------------------------------------------------
(* The store's synchronous actions, as functions of the store state s *)

Store ==
    [currentStep |-> currentStep, isLoading |-> isLoading,
     error |-> error, sessionData |-> sessionData]

setCurrentStep(s, step) == [s EXCEPT !.currentStep = step]

setLoading(s, loading) == [s EXCEPT !.isLoading = loading]

setError(s, e) == [s EXCEPT !.error = e]

\* { ...state.sessionData, ...data }
updateSessionData(s, data) ==
    LET sd == s.sessionData
    IN [s EXCEPT !.sessionData =
            [k \in DOMAIN sd |-> IF k \in DOMAIN data THEN data[k] ELSE sd[k]]]

\* the entries addLog keeps (part_001:232)
LogLimit == 50

\* variant: once the log is full the entries added first are kept
addLogKeeping_oldest(s, message, level, limit) ==
    [s EXCEPT !.sessionData.logs =
        SubSeq(Append(@, [message |-> message, level |-> level]), 1,
               IF Len(@) + 1 <= limit THEN Len(@) + 1 ELSE limit)]

\* addLog with its window as a parameter: [...logs, entry].slice(-limit),
\* applied to the state current at the call.  Timestamps are left out: they
\* are read from the clock and never read back
addLogKeeping(s, message, level, limit) ==
    [s EXCEPT !.sessionData.logs =
        LastN(Append(@, [message |-> message, level |-> level]), limit)]

\* addLog within the workflow, its window scaled down to MaxLogs
addLog(s, message, level) == addLogKeeping(s, message, level, MaxLogs)

\* variant: the preview cache survives a reset
resetSession_keepingCache(s) ==
    [currentStep |-> 0, isLoading |-> FALSE, error |-> NoText,
     sessionData |-> [initialSessionData EXCEPT !.cache = s.sessionData.cache]]

resetSession(s) ==
    [currentStep |-> 0, isLoading |-> FALSE, error |-> NoText,
     sessionData |-> initialSessionData]

getMaxAllowedStep(s) ==
    LET sd == s.sessionData
    IN IF sd.fileId = NoFile THEN 0
       ELSE IF sd.previewData = NoPreviews THEN 1
       ELSE IF sd.cleanResult = NoFile THEN 2
       ELSE IF sd.columnInsights = NoFile THEN 3
       ELSE IF sd.lookupResult = NoFile THEN 4
       ELSE IF sd.lookupInsights = NoFile THEN 5
       ELSE IF sd.updateResult = NoFile THEN 6
       ELSE 7

goToStep(s, step) ==
    IF step >= 0 /\ step <= getMaxAllowedStep(s)
    THEN addLog(setCurrentStep(s, step), "Navigated to step " \o ToString(step + 1), "info")
    ELSE s

nextStep(s) ==
    IF s.currentStep < getMaxAllowedStep(s)
    THEN setCurrentStep(s, s.currentStep + 1)
    ELSE s

previousStep(s) ==
    IF s.currentStep > 0
    THEN addLog(setCurrentStep(s, s.currentStep - 1),
                "Went back to step " \o ToString(s.currentStep), "info")
    ELSE s

---------------------------------------------------------------------------
(* Async calls.  A machine m is the store state s together with one task's *)
(* call stack and request history, threaded through the synchronous code   *)
(* of one step.  A frame at pc "fetch" awaits the backend's response; any  *)
(* other pc awaits a callee, and is resumed once the callee has returned.  *)

NewTask == [stack |-> <<>>, trace |-> <<>>]

Machine(task) == [s |-> Store, stack |-> task.stack, trace |-> task.trace, ret |-> "none"]

\* a call's frame: the function, where it waits, its arguments, and the
\* sessionData and currentStep that get() returned when it was called
Frame(fn, pc, args, s) ==
    [fn |-> fn, pc |-> pc, args |-> args, sd |-> s.sessionData, step |-> s.currentStep]

top(m) == m.stack[Len(m.stack)]

do(m, s) == [m EXCEPT !.s = s]

push(m, frame) == [m EXCEPT !.stack = Append(@, frame)]

setPc(m, pc) == [m EXCEPT !.stack[Len(m.stack)].pc = pc]

\* the async function returns: its promise resolves
return(m) == [m EXCEPT !.stack = SubSeq(@, 1, Len(@) - 1), !.ret = "resolved"]

\* the async function throws: its promise rejects
throw(m) == [m EXCEPT !.stack = SubSeq(@, 1, Len(@) - 1), !.ret = "rejected"]

Endpoint(fn) ==
    CASE fn = "uploadFile" -> "upload"
      [] fn = "previewSheets" -> "preview-session"
      [] fn = "cleanData" -> "clean-session"
      [] fn = "generateColumnInsights" -> "column-insights"
      [] fn = "loadLookupColumns" -> "get-lookup-columns"
      [] fn = "performLookup" -> "lookup-session"
      [] fn = "generateLookupInsights" -> "lookup-insights"
      [] fn = "processUpdates" -> "process-updates"
      [] fn = "configureSharePoint" -> "sharepoint/configure"
      [] OTHER -> "none"

\* await fetch(...): the request is on the wire
fetch(m, fn, args) ==
    [push(m, Frame(fn, "fetch", args, m.s)) EXCEPT
        !.trace = Append(@, [ep |-> Endpoint(fn), ev |-> "sent"])]

\* the response (or the exception) of the top frame's request has arrived
answered(m, ev) ==
    [m EXCEPT !.trace = Append(@, [ep |-> Endpoint(top(m).fn), ev |-> ev])]

\* try { setLoading(true); setError(null); ... await fetch(...)
begin(m, fn, args) ==
    [fetch(m, fn, args) EXCEPT !.s = setError(setLoading(m.s, TRUE), NoText)]

(* How a request ends.  "ok": an OK response with success = true;          *)
(* "exception": fetch rejects (network); "http": a non-OK status;          *)
(* "rejected": success = false with an error string; "refused": success =  *)
(* false without one.                                                      *)
Failures == {"exception", "http", "rejected", "refused"}

NetworkError == "Failed to fetch"
ServerError == "backend error"
HttpStatus == ": 500 Internal Server Error"

DefaultMessage(fn) ==
    CASE fn = "uploadFile" -> "Upload failed"
      [] fn = "previewSheets" -> "Preview failed"
      [] fn = "cleanData" -> "Cleaning failed"
      [] fn = "generateColumnInsights" -> "Column insights failed"
      [] fn = "performLookup" -> "Lookup failed"
      [] fn = "generateLookupInsights" -> "Lookup insights failed"
      [] fn = "processUpdates" -> "Update failed"
      [] fn = "configureSharePoint" -> "SharePoint configuration failed"
      [] OTHER -> "failed"

\* variant: the response's error string is ignored
thrownMessage_default(fn, outcome) ==
    CASE outcome = "exception" -> NetworkError
      [] outcome = "http" -> DefaultMessage(fn) \o HttpStatus
      [] OTHER -> DefaultMessage(fn)

\* the message of the Error that reaches the catch block
thrownMessage(fn, outcome) ==
    CASE outcome = "exception" -> NetworkError
      [] outcome = "http" -> DefaultMessage(fn) \o HttpStatus
      [] outcome = "rejected" -> ServerError
      [] OTHER -> DefaultMessage(fn)

\* variant: the catch block also drops the previews on display
catch_clearing(m, outcome) ==
    LET errorMessage == thrownMessage(top(m).fn, outcome)
        s1 == setError(m.s, errorMessage)
        s2 == addLog(s1, errorMessage, "error")
        s3 == updateSessionData(s2, [previewData |-> NoPreviews])
    IN return(do(answered(m, "failed"), setLoading(s3, FALSE)))

\* catch (error) { setError(errorMessage); addLog(errorMessage, 'error') }
\* finally { setLoading(false) }
catch(m, outcome) ==
    LET errorMessage == thrownMessage(top(m).fn, outcome)
        s1 == setError(m.s, errorMessage)
        s2 == addLog(s1, errorMessage, "error")
    IN return(do(answered(m, "failed"), setLoading(s2, FALSE)))

\* variant: the caller returns without its finally block
finally_skipped(m) == return(m)

\* finally { setLoading(false) } after the awaited callee has returned
finally(m) == return(do(m, setLoading(m.s, FALSE)))

---------------------------------------------------------------------------
(* The store's async API actions: the code run at the call, at the         *)
(* response r of the request, and when an awaited callee has returned.     *)

uploadFile(m, file) == begin(m, "uploadFile", <<file>>)

uploadFile_response(m, r) ==
    IF r.outcome = "ok"
    THEN LET name == top(m).args[1]
             s1 == updateSessionData(m.s, [fileId |-> r.file_id, filename |-> name,
                                           sheetNames |-> r.sheet_names])
             s2 == setCurrentStep(s1, 1)
             s3 == addLog(s2, "File uploaded: " \o name \o " ("
                              \o ToString(Len(r.sheet_names)) \o " sheets)", "success")
         IN return(do(answered(m, "ok"), setLoading(s3, FALSE)))
    ELSE catch(m, r.outcome)

\* `preview_${masterSheet}_${targetSheet}`
cacheKey(masterSheet, targetSheet) == "preview_" \o masterSheet \o "_" \o targetSheet

previewSheets(m, masterSheet, targetSheet) ==
    LET sd == m.s.sessionData
        s1 == setError(setLoading(m.s, TRUE), NoText)
        key == cacheKey(masterSheet, targetSheet)
    IN IF key \in DOMAIN sd.cache
       THEN LET s2 == updateSessionData(s1, [masterSheet |-> masterSheet,
                                             targetSheet |-> targetSheet,
                                             previewData |-> sd.cache[key]])
                s3 == addLog(s2, "Preview loaded from cache (instant!)", "info")
            IN [do(m, setLoading(s3, FALSE)) EXCEPT !.ret = "resolved"]
       ELSE begin(m, "previewSheets", <<masterSheet, targetSheet>>)

previewSheets_response(m, r) ==
    IF r.outcome = "ok"
    THEN LET masterSheet == top(m).args[1]
             targetSheet == top(m).args[2]
             key == cacheKey(masterSheet, targetSheet)
             old == top(m).sd.cache
             newCache == [k \in DOMAIN old \cup {key} |->
                            IF k = key THEN r.previews ELSE old[k]]
             s1 == updateSessionData(m.s, [masterSheet |-> masterSheet,
                                           targetSheet |-> targetSheet,
                                           previewData |-> r.previews,
                                           cache |-> newCache])
             \* the message's row counts are left out: the previews' rows are not modelled
             s2 == addLog(s1, "Preview ready! " \o masterSheet \o ", " \o targetSheet, "success")
         IN return(do(answered(m, "ok"), setLoading(s2, FALSE)))
    ELSE catch(m, r.outcome)

loadLookupColumns(m) == fetch(m, "loadLookupColumns", <<>>)

\* variant: a failed get-lookup-columns request is sent again
loadLookupColumns_response_retrying(m, r) ==
    IF r.outcome = "ok"
    THEN return(do(answered(m, "ok"),
                   updateSessionData(m.s, [availableColumns |-> r.columns])))
    ELSE [answered(m, "failed") EXCEPT
            !.trace = Append(@, [ep |-> "get-lookup-columns", ev |-> "sent"])]

\* a failure is only written to the console
loadLookupColumns_response(m, r) ==
    IF r.outcome = "ok"
    THEN return(do(answered(m, "ok"),
                   updateSessionData(m.s, [availableColumns |-> r.columns])))
    ELSE return(answered(m, "failed"))

generateColumnInsights(m) == begin(m, "generateColumnInsights", <<>>)

generateColumnInsights_response(m, r) ==
    IF r.outcome = "ok"
    THEN LET s1 == updateSessionData(m.s, [columnInsights |-> r.result])
             s2 == setCurrentStep(s1, 4)
             s3 == addLog(s2, "Column insights generated successfully!", "success")
         IN loadLookupColumns(setPc(do(answered(m, "ok"), s3), "await"))
    ELSE catch(m, r.outcome)

cleanData(m) == begin(m, "cleanData", <<>>)

\* variant: column insights are requested whatever clean-session answered
cleanData_response_eager(m, r) ==
    LET s1 == IF r.outcome = "ok"
              THEN updateSessionData(m.s, [cleanResult |-> r.result])
              ELSE addLog(setError(m.s, thrownMessage("cleanData", r.outcome)),
                          thrownMessage("cleanData", r.outcome), "error")
        ev == IF r.outcome = "ok" THEN "ok" ELSE "failed"
    IN generateColumnInsights(setPc(do(answered(m, ev), s1), "await"))

cleanData_response(m, r) ==
    IF r.outcome = "ok"
    THEN LET s1 == updateSessionData(m.s, [cleanResult |-> r.result])
             s2 == setCurrentStep(s1, 3)
             s3 == addLog(s2, "Data cleaning completed successfully!", "success")
         IN generateColumnInsights(setPc(do(answered(m, "ok"), s3), "await"))
    ELSE catch(m, r.outcome)

generateLookupInsights(m) == begin(m, "generateLookupInsights", <<>>)

generateLookupInsights_response(m, r) ==
    IF r.outcome = "ok"
    THEN LET s1 == updateSessionData(m.s, [lookupInsights |-> r.result])
             s2 == setCurrentStep(s1, 6)
             s3 == addLog(s2, "Lookup insights generated successfully!", "success")
         IN return(do(answered(m, "ok"), setLoading(s3, FALSE)))
    ELSE catch(m, r.outcome)

performLookup(m, lookupColumn) == begin(m, "performLookup", <<lookupColumn>>)

\* variant: a failed lookup drops the result of the lookup before it
performLookup_response_dropping(m, r) ==
    IF r.outcome = "ok"
    THEN LET s1 == updateSessionData(m.s, [lookupResult |-> r.result])
             s2 == setCurrentStep(s1, 5)
             s3 == addLog(s2, "Lookup completed using column: " \o top(m).args[1], "success")
         IN generateLookupInsights(setPc(do(answered(m, "ok"), s3), "await"))
    ELSE catch(do(m, updateSessionData(m.s, [lookupResult |-> NoFile])), r.outcome)

performLookup_response(m, r) ==
    IF r.outcome = "ok"
    THEN LET s1 == updateSessionData(m.s, [lookupResult |-> r.result])
             s2 == setCurrentStep(s1, 5)
             s3 == addLog(s2, "Lookup completed using column: " \o top(m).args[1], "success")
         IN generateLookupInsights(setPc(do(answered(m, "ok"), s3), "await"))
    ELSE catch(m, r.outcome)

processUpdates(m) == begin(m, "processUpdates", <<>>)

processUpdates_response(m, r) ==
    IF r.outcome = "ok"
    THEN LET s1 == updateSessionData(m.s, [updateResult |-> r.result])
             s2 == setCurrentStep(s1, 6)
             s3 == addLog(s2, "Master BOM updates completed successfully!", "success")
         IN return(do(answered(m, "ok"), setLoading(s3, FALSE)))
    ELSE catch(m, r.outcome)

configureSharePoint(m) == begin(m, "configureSharePoint", <<>>)

configureSharePoint_response(m, r) ==
    IF r.outcome = "ok"
    THEN LET s1 == updateSessionData(m.s, [sharepointConfig |-> r.result])
             s2 == setCurrentStep(s1, 7)
             s3 == addLog(s2, "SharePoint configured successfully!", "success")
         IN return(do(answered(m, "ok"), setLoading(s3, FALSE)))
    ELSE catch(m, r.outcome)

(* Quick actions *)

quickPreview(m) ==
    LET sd == m.s.sessionData
    IN IF sd.fileId = NoFile \/ Len(sd.sheetNames) < 2
       THEN [m EXCEPT !.ret = "rejected"]
       ELSE previewSheets(push(m, Frame("quickPreview", "await", <<>>, m.s)),
                          sd.sheetNames[1], sd.sheetNames[2])

\* addLog('Starting auto-process pipeline...'); await cleanData()
quickProcess_clean(m) ==
    cleanData(setPc(do(m, addLog(m.s, "Starting auto-process pipeline...", "info")),
                    "await_clean"))

\* sessionData is the object get() returned when quickProcess was called
quickProcess_lookup(m) ==
    LET sessionData0 == top(m).sd
    IN IF Len(sessionData0.availableColumns) > 0
       THEN performLookup(setPc(m, "await_lookup"), sessionData0.availableColumns[1])
       ELSE return(do(m, addLog(m.s, "Auto-process completed!", "success")))

quickProcess(m) ==
    LET m1 == push(m, Frame("quickProcess", "await_preview", <<>>, m.s))
    IN IF m.s.sessionData.previewData = NoPreviews
       THEN LET m2 == quickPreview(m1)
            IN IF m2.ret = "rejected" THEN throw(m2) ELSE m2
       ELSE quickProcess_clean(m1)

\* the awaiting caller on top of the stack continues
resume(m) ==
    LET f == top(m)
    IN CASE f.fn = "quickPreview" -> return(m)
         [] f.fn \in {"cleanData", "generateColumnInsights", "performLookup"} -> finally(m)
         [] f.fn = "quickProcess" /\ f.pc = "await_preview" -> quickProcess_clean(m)
         [] f.fn = "quickProcess" /\ f.pc = "await_clean" -> quickProcess_lookup(m)
         [] f.fn = "quickProcess" /\ f.pc = "await_lookup" ->
                return(do(m, addLog(m.s, "Auto-process completed!", "success")))

---------------------------------------------------------------------------
(* Steps *)

Commit(s) ==
    /\ currentStep' = s.currentStep
    /\ isLoading' = s.isLoading
    /\ error' = s.error
    /\ sessionData' = s.sessionData

Remove(seq, i) == SubSeq(seq, 1, i - 1) \o SubSeq(seq, i + 1, Len(seq))

\* a response is awaited by task i
Waits(i) == tasks[i].stack[Len(tasks[i].stack)].pc = "fetch"

\* no microtask is pending: the event loop takes the next macrotask
Idle == \A i \in DOMAIN tasks : Waits(i)

\* what the step was: the kind of step, the function it ran, how the request
\* ended, the task (0 = a new one) and how the function it ran left off
Step(op, fn, outcome, i, m) ==
    last' = [op |-> op, fn |-> fn, outcome |-> outcome, task |-> i, ret |-> m.ret]

\* an event handler ran the machine from a fresh task to m
Handled(fn, m) ==
    /\ Commit(m.s)
    /\ tasks' = IF m.stack = <<>> THEN tasks
                ELSE Append(tasks, [stack |-> m.stack, trace |-> m.trace])
    /\ Step("call", fn, "none", 0, m)
    /\ UNCHANGED <<srvFile, offered, discarded, failures, engine, views>>

\* task i ran from its top frame to m
Ran(i, op, outcome, m) ==
    /\ Commit(m.s)
    /\ tasks' = IF m.stack = <<>> THEN Remove(tasks, i)
                ELSE [tasks EXCEPT ![i] = [stack |-> m.stack, trace |-> m.trace]]
    /\ Step(op, top(Machine(tasks[i])).fn, outcome, i, m)
    /\ outcome \in Failures => failures < MaxFailures
    /\ failures' = IF outcome \in Failures THEN failures + 1 ELSE failures
    /\ UNCHANGED views

\* a user event can be taken
UserEvent == Idle /\ Len(tasks) < MaxTasks

Start == Machine(NewTask)

(* ETLDashboard: <Spin spinning={isLoading}> covers the step content and   *)
(* StepNavigation; antd's Button ignores clicks while loading={isLoading}. *)
spinning == isLoading

(* FileUpload, rendered for currentStep 0 *)
dropzoneDisabled == isLoading

DropFile ==
    /\ UserEvent /\ currentStep = 0 /\ ~spinning /\ ~dropzoneDisabled
    /\ \E file \in FileNames : Handled("uploadFile", uploadFile(Start, file))

(* SheetPreview, rendered for currentStep 1.  The two selects start from   *)
(* sessionData.masterSheet / targetSheet and offer sessionData.sheetNames. *)
Selectable(initial) == Range(sessionData.sheetNames) \cup ({initial} \ {NoText})

ClickPreviewSheets ==
    /\ UserEvent /\ currentStep = 1 /\ ~spinning
    /\ \E selectedMaster \in Selectable(sessionData.masterSheet),
          selectedTarget \in Selectable(sessionData.targetSheet) :
            /\ selectedMaster # selectedTarget
            /\ Handled("previewSheets", previewSheets(Start, selectedMaster, selectedTarget))

ClickContinueToCleaning ==
    /\ UserEvent /\ currentStep = 1 /\ ~spinning
    /\ sessionData.previewData # NoPreviews
    /\ Handled("setCurrentStep", do(Start, setCurrentStep(Store, 2)))

(* DataCleaning, rendered for currentStep 2 *)
ClickCleanData ==
    /\ UserEvent /\ currentStep = 2 /\ ~spinning
    /\ Handled("cleanData", cleanData(Start))

ClickContinueToLookup ==
    /\ UserEvent /\ currentStep = 2 /\ ~spinning
    /\ sessionData.cleanResult # NoFile
    /\ Handled("nextStep", do(Start, nextStep(Store)))

(* LookupConfig, rendered for currentStep 4 *)
ClickPerformLookup ==
    /\ UserEvent /\ currentStep = 4 /\ ~spinning
    /\ \E selectedColumn \in Range(sessionData.availableColumns) :
            Handled("performLookup", performLookup(Start, selectedColumn))

ClickViewResults ==
    /\ UserEvent /\ currentStep = 4 /\ ~spinning
    /\ sessionData.lookupResult # NoFile
    /\ Handled("nextStep", do(Start, nextStep(Store)))

(* ResultsView, rendered for currentStep 6 *)
ClickContinueToUpdates ==
    /\ UserEvent /\ currentStep = 6 /\ ~spinning
    /\ sessionData.lookupResult # NoFile
    /\ Handled("nextStep", do(Start, nextStep(Store)))

(* MasterUpdates, rendered for currentStep 7 *)
ClickProcessUpdates ==
    /\ UserEvent /\ currentStep = 7 /\ ~spinning
    /\ Handled("processUpdates", processUpdates(Start))

(* QuickActions, in the sider whenever a file is uploaded *)
canPreview == sessionData.fileId # NoFile /\ Len(sessionData.sheetNames) >= 2

canProcess == sessionData.previewData # NoPreviews \/ canPreview

quickPreviewDisabled == ~canPreview \/ isLoading

\* variant: Auto Process stays enabled while a request is loading
quickProcessDisabled_enabled == ~canProcess

quickProcessDisabled == ~canProcess \/ isLoading

\* try { await quickX() } catch (error) { addLog(error.message, 'error') }
handleQuick(m) ==
    IF m.ret = "rejected"
    THEN do(m, addLog(m.s, "Need at least 2 sheets for quick preview", "error"))
    ELSE m

ClickQuickPreview ==
    /\ UserEvent /\ sessionData.fileId # NoFile /\ ~quickPreviewDisabled
    /\ Handled("quickPreview", handleQuick(quickPreview(Start)))

ClickAutoProcess ==
    /\ UserEvent /\ sessionData.fileId # NoFile /\ ~quickProcessDisabled
    /\ Handled("quickProcess", handleQuick(quickProcess(Start)))

(* StepNavigation *)
stepNames == <<"Upload", "Preview", "Clean", "Lookup", "Results", "Updates">>

ClickBack ==
    /\ UserEvent /\ ~spinning
    /\ ~(~(currentStep > 0) \/ isLoading)
    /\ Handled("previousStep", do(Start, previousStep(Store)))

ClickNext ==
    /\ UserEvent /\ ~spinning
    /\ ~(~(currentStep < getMaxAllowedStep(Store)) \/ isLoading)
    /\ Handled("nextStep", do(Start, nextStep(Store)))

ClickStepDot ==
    /\ UserEvent /\ ~spinning
    /\ \E index \in 0..(Len(stepNames) - 1) :
        /\ ~(index > getMaxAllowedStep(Store) \/ isLoading)
        /\ Handled("goToStep", do(Start, goToStep(Store, index)))

resetDisabled == isLoading

ClickReset ==
    /\ Idle /\ ~spinning /\ ~resetDisabled
    /\ Commit(resetSession(Store))
    /\ Step("call", "resetSession", "none", 0, Start)
    /\ discarded' = srvFile
    /\ UNCHANGED <<tasks, srvFile, offered, failures, engine, views>>

(* A caller of configureSharePoint: no component of the repository calls   *)
(* it; it is called like the other actions, when nothing is loading.       *)
CallConfigureSharePoint ==
    /\ UserEvent /\ ~isLoading
    /\ Handled("configureSharePoint", configureSharePoint(Start))

(* A caller of previewSheets other than the SheetPreview button: the       *)
(* store's API lets previewSheets be called while an earlier call still    *)
(* awaits its response.                                                    *)
CallPreviewSheets ==
    /\ UserEvent
    /\ \E masterSheet \in Range(sessionData.sheetNames),
          targetSheet \in Range(sessionData.sheetNames) :
            /\ masterSheet # targetSheet
            /\ Handled("previewSheets", previewSheets(Start, masterSheet, targetSheet))

---------------------------------------------------------------------------
(* The Dashboard and BOM Analysis sections.  ETLDashboard shows one section *)
(* at a time; the step content and the sider (QuickActions) belong to the   *)
(* 'process' section, StepNavigation is shown in all of them.               *)

Sections == {"process", "dashboard", "bom"}

\* reading a property an object does not have
Undefined == "undefined"

Field(obj, name) == IF name \in DOMAIN obj THEN obj[name] ELSE Undefined

\* sessionData.uploadedFile, as Dashboard and BOMAnalysis read it
uploadedFile == Field(sessionData, "uploadedFile")

Truthy(value) == value # Undefined

\* useState(...) of Dashboard; `fetching`: its request is on the wire
DashboardMounted ==
    [mounted |-> TRUE, dashboardData |-> NoText, loading |-> FALSE, fetching |-> FALSE]

DashboardUnmounted == [DashboardMounted EXCEPT !.mounted = FALSE]

\* setLoading(true); await fetch('http://localhost:8000/dashboard/data')
generateDashboardData(d) == [d EXCEPT !.loading = TRUE, !.fetching = TRUE]

\* the transformed backend data, or the mock data in the catch block
generateDashboardData_response(d, outcome) ==
    [d EXCEPT !.dashboardData = IF outcome = "ok" THEN "backend" ELSE "mock",
              !.loading = FALSE,
              !.fetching = FALSE]

\* the mount and its effect: if (sessionData.uploadedFile) generateDashboardData()
Dashboard ==
    IF Truthy(uploadedFile) THEN generateDashboardData(DashboardMounted) ELSE DashboardMounted

\* what Dashboard renders
DashboardShows ==
    IF dashboard.loading THEN "Processing dashboard data..."
    ELSE IF ~Truthy(uploadedFile) THEN "No Data Available"
    ELSE "Analytics Dashboard"

\* useState(...) of BOMAnalysis
BOMAnalysisMounted ==
    [mounted |-> TRUE, bomData |-> <<>>, categoryAnalysis |-> <<>>,
     loading |-> FALSE, fetching |-> FALSE]

BOMAnalysisUnmounted == [BOMAnalysisMounted EXCEPT !.mounted = FALSE]

\* setLoading(true); await fetch('http://localhost:8000/bom/analysis')
generateBOMAnalysis(b) == [b EXCEPT !.loading = TRUE, !.fetching = TRUE]

\* the mount and its effect: if (sessionData.uploadedFile) generateBOMAnalysis()
BOMAnalysis ==
    IF Truthy(uploadedFile) THEN generateBOMAnalysis(BOMAnalysisMounted) ELSE BOMAnalysisMounted

\* the parts of bomData with one of the statuses, within a category or in all
partsWith(bomData, categories, statuses) ==
    Cardinality({i \in 1..Len(bomData) :
                    bomData[i].category \in categories /\ bomData[i].status \in statuses})

\* an entry of category_analysis transformed: totalParts and activeParts are
\* the backend's, the three other counts are calculated from the BOM data
transformCategory(item, bomData) ==
    [category |-> item.category,
     totalParts |-> item.total_parts,
     activeParts |-> item.active_parts,
     inactiveParts |-> partsWith(bomData, {item.category}, {"X"}),
     pendingParts |-> partsWith(bomData, {item.category}, {"0"}),
     notFoundParts |-> partsWith(bomData, {item.category}, {"NOT_FOUND"})]

\* the try block after the response: setBomData, setCategoryAnalysis; the
\* fields of a part that are not counted are left out
generateBOMAnalysis_backend(b, backendData) ==
    LET transformedBOMData ==
            [i \in 1..Len(backendData.bom_data) |->
                [category |-> backendData.bom_data[i].category,
                 status |-> backendData.bom_data[i].status]]
    IN [b EXCEPT !.bomData = transformedBOMData,
                 !.categoryAnalysis =
                    [k \in 1..Len(backendData.category_analysis) |->
                        transformCategory(backendData.category_analysis[k], transformedBOMData)],
                 !.loading = FALSE,
                 !.fetching = FALSE]

\* the keys of categoryMap in insertion order: the categories as first met
RECURSIVE categoriesOf(_)
categoriesOf(items) ==
    IF items = <<>> THEN <<>>
    ELSE LET before == categoriesOf(SubSeq(items, 1, Len(items) - 1))
             category == items[Len(items)].category
         IN IF \E k \in 1..Len(before) : before[k] = category
            THEN before ELSE Append(before, category)

\* the catch block: mock parts of random status and category, and the
\* category analysis counted from them
generateBOMAnalysis_mock(b, mockBOMData) ==
    LET keys == categoriesOf(mockBOMData)
    IN [b EXCEPT !.bomData = mockBOMData,
                 !.categoryAnalysis =
                    [k \in 1..Len(keys) |->
                        [category |-> keys[k],
                         totalParts |-> partsWith(mockBOMData, {keys[k]},
                                                  {"D", "0", "X", "NOT_FOUND"}),
                         activeParts |-> partsWith(mockBOMData, {keys[k]}, {"D"}),
                         inactiveParts |-> partsWith(mockBOMData, {keys[k]}, {"X"}),
                         pendingParts |-> partsWith(mockBOMData, {keys[k]}, {"0"}),
                         notFoundParts |-> partsWith(mockBOMData, {keys[k]}, {"NOT_FOUND"})]],
                 !.loading = FALSE,
                 !.fetching = FALSE]

\* totalStats, computed on every render
totalStats ==
    LET all == {bom.bomData[i].category : i \in 1..Len(bom.bomData)}
    IN [totalParts |-> Len(bom.bomData),
        activeParts |-> partsWith(bom.bomData, all, {"D"}),
        pendingParts |-> partsWith(bom.bomData, all, {"0"}),
        inactiveParts |-> partsWith(bom.bomData, all, {"X"}),
        notFoundParts |-> partsWith(bom.bomData, all, {"NOT_FOUND"})]

ProcessSection == activeSection = "process"

\* a navigation button of the header: setActiveSection(section); the section
\* shown before is unmounted, the new one mounted and its effect run
ShowSection(section) ==
    /\ Idle
    /\ section # activeSection
    /\ activeSection' = section
    /\ dashboard' = IF section = "dashboard" THEN Dashboard ELSE DashboardUnmounted
    /\ bom' = IF section = "bom" THEN BOMAnalysis ELSE BOMAnalysisUnmounted
    /\ last' = [op |-> "call", fn |-> "setActiveSection", outcome |-> "none",
                task |-> 0, ret |-> "none"]
    /\ UNCHANGED <<currentStep, isLoading, error, sessionData, tasks,
                   srvFile, offered, discarded, failures, engine, theme, seen, monitor>>

\* some caller runs generateBOMAnalysis, which BOMAnalysis itself only does
\* for a truthy sessionData.uploadedFile
CallGenerateBOMAnalysis ==
    /\ bom.mounted /\ ~bom.fetching /\ bom.bomData = <<>>
    /\ bom' = generateBOMAnalysis(bom)
    /\ UNCHANGED <<workflow, activeSection, dashboard, theme, seen, monitor>>

\* /bom/analysis answers 200 with backendData
BomAnalysisResponse(backendData) ==
    /\ bom.fetching
    /\ bom' = generateBOMAnalysis_backend(bom, backendData)
    /\ UNCHANGED <<workflow, activeSection, dashboard, theme, seen, monitor>>

\* /bom/analysis fails: the mock parts drawn are mockBOMData
BomAnalysisFails(mockBOMData) ==
    /\ bom.fetching
    /\ bom' = generateBOMAnalysis_mock(bom, mockBOMData)
    /\ UNCHANGED <<workflow, activeSection, dashboard, theme, seen, monitor>>

---------------------------------------------------------------------------
(* ThemeProvider.  localStorage and the system colour scheme are its       *)
(* environment; `strictMode` tells whether React runs the mount effects    *)
(* twice, as a development build under StrictMode does.                    *)

Themes == {"light", "dark"}

\* toggles recorded in a page session
MaxToggles == 3

\* the page is loading: nothing rendered, no class on the fresh document root
ThemeLoading(stored, prefersDark, strictMode) ==
    [phase |-> "loading", currentTheme |-> "light", updates |-> <<>>,
     stored |-> stored, dark |-> FALSE,
     prefersDark |-> prefersDark, strictMode |-> strictMode]

\* setCurrentTheme(value): queued until the next render
setCurrentTheme(t, value) == [t EXCEPT !.updates = Append(@, value)]

\* first effect: the saved theme, or else the system preference
loadTheme(t) ==
    LET savedTheme == t.stored
    IN IF savedTheme # NoText
       THEN setCurrentTheme(t, savedTheme)
       ELSE setCurrentTheme(t, IF t.prefersDark THEN "dark" ELSE "light")

\* second effect, for the currentTheme of the render it belongs to
applyTheme(t, rendered) ==
    [t EXCEPT !.dark = (rendered = "dark"), !.stored = rendered]

\* both effects of one render, in the order they are declared
mountEffects(t) == applyTheme(loadTheme(t), t.currentTheme)

\* the state after the queued updates: each replaces the one before
settledTheme(t) ==
    IF t.updates = <<>> THEN t.currentTheme ELSE t.updates[Len(t.updates)]

\* the first render and its effects
ThemeProvider(t) ==
    LET once == mountEffects([t EXCEPT !.currentTheme = "light"])
        run  == IF t.strictMode THEN mountEffects(once) ELSE once
    IN [run EXCEPT !.phase = "mounted"]

\* the render for the queued updates; the second effect runs when
\* currentTheme changed
rerender(t) ==
    LET next == settledTheme(t)
        t1   == [t EXCEPT !.currentTheme = next, !.updates = <<>>, !.phase = "settled"]
    IN IF next = t.currentTheme THEN t1 ELSE applyTheme(t1, next)

\* toggleTheme, the render it causes and that render's effect
toggleTheme(t) ==
    LET prev == settledTheme(t)
        next == IF prev = "light" THEN "dark" ELSE "light"
    IN applyTheme([t EXCEPT !.currentTheme = next, !.updates = <<>>,
                            !.phase = "settled"], next)

NothingSeen == [saved |-> NoText, prefersDark |-> FALSE, themes |-> <<>>]

Mount ==
    /\ theme.phase = "loading"
    /\ theme' = ThemeProvider(theme)
    /\ seen' = [saved |-> theme.stored, prefersDark |-> theme.prefersDark, themes |-> <<>>]
    /\ UNCHANGED <<workflow, activeSection, dashboard, bom, monitor>>

Settle ==
    /\ theme.phase = "mounted"
    /\ theme' = rerender(theme)
    /\ seen' = [seen EXCEPT !.themes = <<theme'.currentTheme>>]
    /\ UNCHANGED <<workflow, activeSection, dashboard, bom, monitor>>

ClickThemeToggle ==
    /\ theme.phase = "settled"
    /\ Len(seen.themes) <= MaxToggles
    /\ theme' = toggleTheme(theme)
    /\ seen' = [seen EXCEPT !.themes = Append(@, theme'.currentTheme)]
    /\ UNCHANGED <<workflow, activeSection, dashboard, bom, monitor>>

\* the system colour scheme changes; ThemeProvider does not listen to it
SystemSchemeChanges ==
    /\ theme' = [theme EXCEPT !.prefersDark = ~@]
    /\ UNCHANGED <<workflow, activeSection, dashboard, bom, seen, monitor>>

---------------------------------------------------------------------------
(* The backend's lookup engine and insights aggregator.  A cell is null or *)
(* a text, a text being the sequence of its characters; a row maps column  *)
(* names to cells; a cleaned table is its column names and its rows.       *)
(* match_rate and the percentages are counted in tenths: 667 is 66.7.      *)

NullCell == [null |-> TRUE]

Text(chars) == [chars |-> chars]

isEmpty(cell) == cell = NullCell \/ cell.chars = <<>>

RECURSIVE trimStart(_)
trimStart(chars) ==
    IF chars # <<>> /\ Head(chars) = " " THEN trimStart(Tail(chars)) ELSE chars

RECURSIVE trimEnd(_)
trimEnd(chars) ==
    IF chars # <<>> /\ chars[Len(chars)] = " "
    THEN trimEnd(SubSeq(chars, 1, Len(chars) - 1))
    ELSE chars

lower(char) ==
    CASE char = "A" -> "a"
      [] char = "B" -> "b"
      [] OTHER -> char

casefold(chars) == [i \in 1..Len(chars) |-> lower(chars[i])]

\* variant: keys are trimmed but compared case-sensitively
normalizeKey_trimmed(cell) == trimEnd(trimStart(cell.chars))

\* a key as it is compared
normalizeKey(cell) == casefold(trimEnd(trimStart(cell.chars)))

Taxonomy == {"D", "0", "X"}

Statuses == Taxonomy \cup {"NOT_FOUND"}

\* variant: the raw status field is passed through
statusOf_passthrough(row) == row["STATUS"]

\* the Master row's status-bearing field, D when it carries none
statusOf(row) ==
    IF "STATUS" \in DOMAIN row /\ row["STATUS"] \in Taxonomy THEN row["STATUS"] ELSE "D"

\* the Master rows with the key, by position
indexed(master, keyColumn, key) ==
    {j \in 1..Len(master.rows) :
        /\ master.rows[j][keyColumn] # NullCell
        /\ normalizeKey(master.rows[j][keyColumn]) = key}

\* variant: a later Master row replaces the index entry of an earlier one
firstOccurrence_overwritten(master, keyColumn, key) ==
    LET hits == indexed(master, keyColumn, key)
    IN IF hits = {} THEN 0 ELSE CHOOSE j \in hits : \A k \in hits : j >= k

\* the index entry of a key: the first Master row with it, 0 when there is none
firstOccurrence(master, keyColumn, key) ==
    LET hits == indexed(master, keyColumn, key)
    IN IF hits = {} THEN 0 ELSE CHOOSE j \in hits : \A k \in hits : j <= k

\* the LookupResult row of one Target row
lookupRow(master, row, keyColumn) ==
    LET matched == IF isEmpty(row[keyColumn]) THEN 0
                   ELSE firstOccurrence(master, keyColumn, normalizeKey(row[keyColumn]))
    IN [row |-> row,
        status |-> IF matched = 0 THEN "NOT_FOUND" ELSE statusOf(master.rows[matched]),
        matched |-> matched]

\* the Master rows that repeat the key of an earlier row
duplicates(master, keyColumn) ==
    {j \in 1..Len(master.rows) :
        /\ master.rows[j][keyColumn] # NullCell
        /\ firstOccurrence(master, keyColumn, normalizeKey(master.rows[j][keyColumn])) < j}

\* variant: Target rows without a key are left out of the result
lookup_keyed(master, target, keyColumn) ==
    IF keyColumn \notin master.columns \/ keyColumn \notin target.columns
    THEN [error |-> "InvalidColumnError", rows |-> <<>>, warnings |-> {}]
    ELSE [error |-> NoText,
          rows |-> SelectSeq([i \in 1..Len(target.rows) |->
                                  lookupRow(master, target.rows[i], keyColumn)],
                             LAMBDA r : ~isEmpty(r.row[keyColumn])),
          warnings |-> IF duplicates(master, keyColumn) = {} THEN {}
                       ELSE {"DuplicateKeyWarning"}]

lookup(master, target, keyColumn) ==
    IF keyColumn \notin master.columns \/ keyColumn \notin target.columns
    THEN [error |-> "InvalidColumnError", rows |-> <<>>, warnings |-> {}]
    ELSE [error |-> NoText,
          rows |-> [i \in 1..Len(target.rows) |-> lookupRow(master, target.rows[i], keyColumn)],
          warnings |-> IF duplicates(master, keyColumn) = {} THEN {}
                       ELSE {"DuplicateKeyWarning"}]

count(rows, statuses) == Cardinality({i \in 1..Len(rows) : rows[i].status \in statuses})

\* variant: the tenths are cut off rather than rounded
percentage_truncated(part, total) ==
    IF total = 0 THEN 0 ELSE (part * 1000) \div total

\* part / total * 100 in tenths, rounded to the nearest; 0 of nothing
percentage(part, total) ==
    IF total = 0 THEN 0 ELSE (2 * part * 1000 + total) \div (2 * total)

summarize(rows) ==
    LET total == Len(rows)
        distribution == [s \in Statuses |-> count(rows, {s})]
    IN [total_records |-> total,
        successful_matches |-> count(rows, Taxonomy),
        failed_matches |-> count(rows, {"NOT_FOUND"}),
        match_rate |-> percentage(count(rows, Taxonomy), total),
        activation_status_distribution |-> distribution,
        activation_percentages |-> [s \in Statuses |-> percentage(distribution[s], total)]]

NoLookup == [keyColumn |-> NoText, result |-> <<>>, summary |-> summarize(<<>>), warnings |-> {}]

\* the session before any table was cleaned
NoTable == [columns |-> {}, rows |-> <<>>]

\* the table with one more column, holding the same reference in every row
withREF(table, chars) ==
    [columns |-> table.columns \cup {"REF"},
     rows |-> [i \in 1..Len(table.rows) |->
                [c \in DOMAIN table.rows[i] \cup {"REF"} |->
                    IF c = "REF" THEN Text(chars) ELSE table.rows[i][c]]]]

\* `response`: what the last lookup-session request was answered
NoResponse == [keyColumn |-> NoText, success |-> FALSE, error |-> NoText]

NoEngine == [master |-> NoTable, target |-> NoTable, lookup |-> NoLookup,
             response |-> NoResponse]

\* the session once the tables are cleaned
Cleaned(master, target) == [NoEngine EXCEPT !.master = master, !.target = target]

\* lookup-session: a successful lookup replaces the session's stored lookup
lookupSession(e, keyColumn) ==
    LET r == lookup(e.master, e.target, keyColumn)
    IN IF r.error # NoText
       THEN [e EXCEPT !.response = [keyColumn |-> keyColumn, success |-> FALSE,
                                    error |-> r.error]]
       ELSE [e EXCEPT !.lookup = [keyColumn |-> keyColumn,
                                  result |-> r.rows,
                                  summary |-> summarize(r.rows),
                                  warnings |-> r.warnings],
                      !.response = [keyColumn |-> keyColumn, success |-> TRUE,
                                    error |-> NoText]]

\* a lookup-session request served by the engine
LookupSession(keyColumn) ==
    /\ engine' = lookupSession(engine, keyColumn)
    /\ engine' # engine
    /\ UNCHANGED <<currentStep, isLoading, error, sessionData, tasks, srvFile, offered,
                   discarded, failures, last, views>>

---------------------------------------------------------------------------
(* The backend answers the request of task i.  What it returns on success  *)
(* is data of the file it holds; it fails a request in one of the ways     *)
(* `kinds`, and serves at most `files` uploads.                            *)

Awaits(i, fn) ==
    /\ Idle
    /\ i \in DOMAIN tasks
    /\ top(Machine(tasks[i])).fn = fn
    /\ Waits(i)

UploadResponse(i, files, kinds) ==
    /\ Awaits(i, "uploadFile")
    /\ \/ /\ srvFile < files
          /\ \E sheets \in SheetLists :
                Ran(i, "response", "ok",
                    uploadFile_response(Machine(tasks[i]),
                        [outcome |-> "ok", file_id |-> srvFile + 1, sheet_names |-> sheets]))
          /\ srvFile' = srvFile + 1
          /\ offered' = {}
       \/ /\ \E outcome \in kinds :
                Ran(i, "response", outcome,
                    uploadFile_response(Machine(tasks[i]), [outcome |-> outcome]))
          /\ UNCHANGED <<srvFile, offered>>
    /\ UNCHANGED <<discarded, engine>>

PreviewResponse(i, kinds) ==
    /\ Awaits(i, "previewSheets")
    /\ \E outcome \in {"ok"} \cup kinds :
        LET f == top(Machine(tasks[i]))
            r == [outcome |-> outcome,
                  previews |-> [file |-> srvFile, master |-> f.args[1], target |-> f.args[2]]]
        IN Ran(i, "response", outcome, previewSheets_response(Machine(tasks[i]), r))
    /\ UNCHANGED <<srvFile, offered, discarded, engine>>

\* the response of an endpoint whose result object is not looked into: it is
\* data of srvFile
Result(outcome) == [outcome |-> outcome, result |-> srvFile]

CleanResponse(i, kinds) ==
    /\ Awaits(i, "cleanData")
    /\ \E outcome \in {"ok"} \cup kinds :
        Ran(i, "response", outcome, cleanData_response(Machine(tasks[i]), Result(outcome)))
    /\ UNCHANGED <<srvFile, offered, discarded, engine>>

ColumnInsightsResponse(i, kinds) ==
    /\ Awaits(i, "generateColumnInsights")
    /\ \E outcome \in {"ok"} \cup kinds :
        Ran(i, "response", outcome, generateColumnInsights_response(Machine(tasks[i]), Result(outcome)))
    /\ UNCHANGED <<srvFile, offered, discarded, engine>>

LookupColumnsResponse(i, kinds) ==
    /\ Awaits(i, "loadLookupColumns")
    /\ \/ \E columns \in ColumnLists :
            /\ Ran(i, "response", "ok",
                   loadLookupColumns_response(Machine(tasks[i]),
                        [outcome |-> "ok", columns |-> columns]))
            /\ offered' = offered \cup Range(columns)
       \/ /\ \E outcome \in kinds :
                Ran(i, "response", outcome,
                    loadLookupColumns_response(Machine(tasks[i]), [outcome |-> outcome]))
          /\ UNCHANGED offered
    /\ UNCHANGED <<srvFile, discarded, engine>>

LookupResponse(i, kinds) ==
    /\ Awaits(i, "performLookup")
    /\ \E outcome \in {"ok"} \cup kinds :
        Ran(i, "response", outcome, performLookup_response(Machine(tasks[i]), Result(outcome)))
    /\ UNCHANGED <<srvFile, offered, discarded, engine>>

\* clean-session answered by the engine's session: it now holds the cleaned
\* tables `master` and `target`
CleanSessionResponse(i, master, target) ==
    /\ Awaits(i, "cleanData")
    /\ Ran(i, "response", "ok", cleanData_response(Machine(tasks[i]), Result("ok")))
    /\ engine' = Cleaned(master, target)
    /\ UNCHANGED <<srvFile, offered, discarded>>

\* lookup-session answered by the engine: success: false with the error's
\* name when the lookup fails
LookupSessionResponse(i) ==
    /\ Awaits(i, "performLookup")
    /\ engine' = lookupSession(engine, top(Machine(tasks[i])).args[1])
    /\ LET outcome == IF engine'.response.success THEN "ok" ELSE "rejected"
       IN Ran(i, "response", outcome,
              performLookup_response(Machine(tasks[i]), Result(outcome)))
    /\ UNCHANGED <<srvFile, offered, discarded>>

LookupInsightsResponse(i, kinds) ==
    /\ Awaits(i, "generateLookupInsights")
    /\ \E outcome \in {"ok"} \cup kinds :
        Ran(i, "response", outcome, generateLookupInsights_response(Machine(tasks[i]), Result(outcome)))
    /\ UNCHANGED <<srvFile, offered, discarded, engine>>

ProcessUpdatesResponse(i, kinds) ==
    /\ Awaits(i, "processUpdates")
    /\ \E outcome \in {"ok"} \cup kinds :
        Ran(i, "response", outcome, processUpdates_response(Machine(tasks[i]), Result(outcome)))
    /\ UNCHANGED <<srvFile, offered, discarded, engine>>

SharePointResponse(i, kinds) ==
    /\ Awaits(i, "configureSharePoint")
    /\ \E outcome \in {"ok"} \cup kinds :
        Ran(i, "response", outcome, configureSharePoint_response(Machine(tasks[i]), Result(outcome)))
    /\ UNCHANGED <<srvFile, offered, discarded, engine>>

\* a microtask: the caller awaiting on top of task i's stack continues
Resume(i) ==
    /\ i \in DOMAIN tasks
    /\ ~Waits(i)
    /\ Ran(i, "resume", "none", resume(Machine(tasks[i])))
    /\ UNCHANGED <<srvFile, offered, discarded, engine>>

---------------------------------------------------------------------------
(* useAPIHealth, the hook ETLDashboard shows the API status with.  Its     *)
(* effect depends on [isHealthy, retryCount]: whenever one of them has     *)
(* changed at a render, the cleanup clears both timers and the effect sets *)
(* them again.  The two timers are set together, so the interval (5 s or   *)
(* 30 s) never fires before the initial delay (1 s) has.                   *)

\* the interval retries while retryCount < 10
MaxRetries == 10

\* health checks in flight at a time; each one ends within its 5 s timeout
MaxChecks == 2

\* how a health request ends: an OK response, a non-OK status, fetch
\* rejecting, or the abort of the 5 s timeout
CheckOutcomes == {"ok", "http", "exception", "abort"}

\* the effect body: setTimeout(checkHealth, 1000) and setInterval(..., period);
\* the interval's callback closes over the isHealthy and retryCount rendered
effect(h) ==
    [h EXCEPT !.initialDelay = TRUE,
              !.interval = [isHealthy |-> h.isHealthy, retryCount |-> h.retryCount]]

\* useState(false), useState(true), useState(0), and the effect at mount
useAPIHealth ==
    effect([isHealthy |-> FALSE, isChecking |-> TRUE, retryCount |-> 0,
            initialDelay |-> FALSE, interval |-> [isHealthy |-> FALSE, retryCount |-> 0],
            checks |-> 0, up |-> FALSE, did |-> "mount", answer |-> "none", was |-> 0])

\* the render after an event: the effect runs again if a dependency changed
renderHealth(before, h) ==
    IF <<h.isHealthy, h.retryCount>> # <<before.isHealthy, before.retryCount>>
    THEN effect(h) ELSE h

\* try { setIsChecking(true); ... await fetch('http://localhost:8000/')
checkHealth(h) == [h EXCEPT !.isChecking = TRUE, !.checks = @ + 1]

\* variant: a check that fails counts as a retry
checkHealth_response_counting(h, outcome) ==
    [h EXCEPT !.isHealthy = (outcome = "ok"),
              !.retryCount = IF outcome = "ok" THEN 0 ELSE @ + 1,
              !.isChecking = FALSE,
              !.checks = @ - 1]

\* the rest of checkHealth, run when its request has ended
checkHealth_response(h, outcome) ==
    [h EXCEPT !.isHealthy = (outcome = "ok"),
              !.retryCount = IF outcome = "ok" THEN 0 ELSE @,
              !.isChecking = FALSE,
              !.checks = @ - 1]

\* the callback of setInterval
intervalCallback(h) ==
    IF ~h.interval.isHealthy /\ h.interval.retryCount < MaxRetries
    THEN checkHealth([h EXCEPT !.retryCount = @ + 1])
    ELSE IF h.interval.isHealthy THEN checkHealth(h)
    ELSE h

\* an event of the hook took its state to h; `did`, `answer` and `was` record
\* the event, how the request ended and the retry count before the event
Health(did, answer, h) ==
    /\ health' = [renderHealth(health, h) EXCEPT !.did = did, !.answer = answer,
                                                 !.was = health.retryCount]
    /\ UNCHANGED <<workflow, activeSection, dashboard, bom, theme, seen, added>>

\* the 1 s timeout set by the effect fires
InitialDelayFires ==
    /\ health.initialDelay
    /\ health.checks < MaxChecks
    /\ Health("initialDelay", "none", checkHealth([health EXCEPT !.initialDelay = FALSE]))

\* the interval set by the effect fires
IntervalFires ==
    /\ ~health.initialDelay
    /\ health.checks < MaxChecks
    /\ Health("interval", "none", intervalCallback(health))

\* the buttons Retry and Retry Connection, rendered while the API is
\* reported disconnected and no check is running
ClickRetry ==
    /\ ~health.isHealthy /\ ~health.isChecking
    /\ health.checks < MaxChecks
    /\ Health("manual", "none", checkHealth(health))

\* the request of a check in flight ends; the backend answers OK while it is up
CheckCompletes ==
    /\ health.checks > 0
    /\ \E outcome \in CheckOutcomes :
        /\ (outcome = "ok") = health.up
        /\ Health("response", outcome, checkHealth_response(health, outcome))

\* the backend starts or stops
BackendChanges ==
    /\ health' = [health EXCEPT !.up = ~@, !.did = "backend", !.answer = "none",
                                !.was = health.retryCount]
    /\ UNCHANGED <<workflow, activeSection, dashboard, bom, theme, seen, added>>

---------------------------------------------------------------------------
(* Specifications *)

InitPage ==
    /\ currentStep = 0
    /\ isLoading = FALSE
    /\ error = NoText
    /\ sessionData = initialSessionData
    /\ tasks = <<>>
    /\ srvFile = 0
    /\ offered = {}
    /\ discarded = 0
    /\ failures = 0
    /\ last = [op |-> "init", fn |-> "none", outcome |-> "none", task |-> 0, ret |-> "none"]
    /\ activeSection = "process"
    /\ dashboard = DashboardUnmounted
    /\ bom = BOMAnalysisUnmounted
    /\ health = useAPIHealth
    /\ added = <<>>

\* the specifications of the workflow leave the theme alone
Init ==
    /\ InitPage
    /\ engine = NoEngine
    /\ theme = ThemeLoading(NoText, FALSE, FALSE)
    /\ seen = NothingSeen

Tasks == 1..MaxTasks

\* the user drives the store through the components the dashboard renders
User ==
    \/ DropFile
    \/ ClickPreviewSheets
    \/ ClickContinueToCleaning
    \/ ClickCleanData
    \/ ClickContinueToLookup
    \/ ClickPerformLookup
    \/ ClickViewResults
    \/ ClickContinueToUpdates
    \/ ClickQuickPreview
    \/ ClickAutoProcess
    \/ ClickBack
    \/ ClickNext
    \/ ClickStepDot
    \/ ClickReset

\* the backend answers the stages' requests and the callers resume
Pipeline(files, kinds) ==
    \/ \E i \in Tasks : UploadResponse(i, files, kinds)
    \/ \E i \in Tasks : PreviewResponse(i, kinds)
    \/ \E i \in Tasks : CleanResponse(i, kinds)
    \/ \E i \in Tasks : ColumnInsightsResponse(i, kinds)
    \/ \E i \in Tasks : LookupColumnsResponse(i, kinds)
    \/ \E i \in Tasks : LookupResponse(i, kinds)
    \/ \E i \in Tasks : LookupInsightsResponse(i, kinds)
    \/ \E i \in Tasks : Resume(i)

(* Spec: the user works through several files in one page session; the     *)
(* backend fails requests with an error status.                            *)
Next == User \/ Pipeline(MaxUploads, {"http"})

Spec == Init /\ [][Next]_vars

(* SpecApi: one file; the backend fails requests in every way, and some    *)
(* caller also uses the two actions no reachable component calls.          *)
NextApi ==
    \/ User
    \/ Pipeline(OneFile, Failures)
    \/ CallConfigureSharePoint
    \/ ClickProcessUpdates
    \/ \E i \in Tasks : ProcessUpdatesResponse(i, Failures)
    \/ \E i \in Tasks : SharePointResponse(i, Failures)

SpecApi == Init /\ [][NextApi]_vars

(* SpecViews: the user uploads a file, previews it and moves between the   *)
(* sections of the page.                                                   *)
NextViews ==
    \/ ProcessSection /\ DropFile
    \/ ProcessSection /\ ClickPreviewSheets
    \/ ProcessSection /\ ClickContinueToCleaning
    \/ ClickBack
    \/ ClickNext
    \/ ClickStepDot
    \/ ClickReset
    \/ \E section \in Sections : ShowSection(section)
    \/ \E i \in Tasks : UploadResponse(i, OneFile, {"http"})
    \/ \E i \in Tasks : PreviewResponse(i, {"http"})

SpecViews == Init /\ [][NextViews]_vars

(* SpecTheme: a page load with any saved theme, system colour scheme and   *)
(* build, followed by toggles.                                             *)
InitTheme ==
    /\ InitPage
    /\ engine = NoEngine
    /\ theme \in {ThemeLoading(stored, prefersDark, strictMode) :
                        stored \in Themes \cup {NoText},
                        prefersDark \in BOOLEAN, strictMode \in BOOLEAN}
    /\ seen = NothingSeen

NextTheme == Mount \/ Settle \/ ClickThemeToggle \/ SystemSchemeChanges

SpecTheme == InitTheme /\ [][NextTheme]_vars

(* SpecBom: generateBOMAnalysis applied to what /bom/analysis may answer   *)
(* and to the mock parts it may draw.                                      *)

\* parts in an answer of /bom/analysis
MaxParts == 2

\* mock parts drawn; 150 in the source
MockParts == 2

\* two of the categories
Categories == {"Electronics", "Hardware"}

\* the status of a part the status taxonomy does not know
OtherStatus == "UNKNOWN"

BackendAnalyses ==
    [bom_data : SeqsUpTo([category : Categories, status : Statuses \cup {OtherStatus}],
                         MaxParts),
     category_analysis : SeqsUpTo([category : Categories, total_parts : 0..MaxParts,
                                   active_parts : 0..MaxParts], 1)]

MockAnalyses == [1..MockParts -> [category : Categories, status : Statuses]]

NextBom ==
    \/ \E section \in Sections : ShowSection(section)
    \/ CallGenerateBOMAnalysis
    \/ \E backendData \in BackendAnalyses : BomAnalysisResponse(backendData)
    \/ \E mockBOMData \in MockAnalyses : BomAnalysisFails(mockBOMData)

SpecBom == Init /\ [][NextBom]_vars

(* SpecSession: the workflow on one file whose cleaned tables have or lack *)
(* the column REF; lookups are served by the engine.                       *)
SessionMaster ==
    [columns |-> {"PN", "STATUS"},
     rows |-> <<[PN |-> Text(<<"A", "1">>), STATUS |-> "D"],
                [PN |-> Text(<<"A", "2">>), STATUS |-> "X"]>>]

SessionTarget ==
    [columns |-> {"PN"},
     rows |-> <<[PN |-> Text(<<"a", "1", " ">>)], [PN |-> Text(<<" ", "A", "2">>)],
                [PN |-> Text(<<"A", "3">>)]>>]

NextSession ==
    \/ User
    \/ \E i \in Tasks : UploadResponse(i, OneFile, {"http"})
    \/ \E i \in Tasks : PreviewResponse(i, {"http"})
    \/ \E i \in Tasks : CleanResponse(i, {"http"}) /\ last'.outcome # "ok"
    \/ \E i \in Tasks :
            \E master \in {SessionMaster, withREF(SessionMaster, <<"B", "1">>)},
               target \in {SessionTarget, withREF(SessionTarget, <<"b", "1">>)} :
                    CleanSessionResponse(i, master, target)
    \/ \E i \in Tasks : ColumnInsightsResponse(i, {"http"})
    \/ \E i \in Tasks : LookupColumnsResponse(i, {"http"})
    \/ \E i \in Tasks : LookupSessionResponse(i)
    \/ \E i \in Tasks : LookupResponse(i, {"http"}) /\ last'.outcome # "ok"
    \/ \E i \in Tasks : LookupInsightsResponse(i, {"http"})
    \/ \E i \in Tasks : Resume(i)

SpecSession == Init /\ [][NextSession]_vars

(* SpecLookup: the engine holds any cleaned Master and Target table of the *)
(* sets below and serves lookups for either key column.                    *)

\* rows of a cleaned Master, of a cleaned Target
MaxMaster == 2

MaxTarget == 3

KeyColumns == {"PN", "REF"}

MasterKeys == {Text(<<"A", "1">>), Text(<<"a", "1", " ">>), Text(<<"A", "2">>), NullCell}

TargetKeys == {Text(<<"a", "1", " ">>), Text(<<" ", "A", "2">>), Text(<<"A", "3">>),
               Text(<<>>), NullCell}

\* a Master with its status-bearing column, null where a row carries no status
MasterTables ==
    {[columns |-> {"PN", "STATUS"}, rows |-> rows] :
        rows \in SeqsUpTo([PN : MasterKeys, STATUS : Taxonomy \cup {NoText}], MaxMaster)}

TargetTables ==
    {[columns |-> {"PN"}, rows |-> rows] : rows \in SeqsUpTo([PN : TargetKeys], MaxTarget)}

InitLookup ==
    /\ InitPage
    /\ \E master \in MasterTables, target \in TargetTables :
            engine \in {Cleaned(m, t) :
                            m \in {master, withREF(master, <<"B", "1">>)},
                            t \in {target, withREF(target, <<"b", "1">>)}}
    /\ theme = ThemeLoading(NoText, FALSE, FALSE)
    /\ seen = NothingSeen

NextLookup == \E keyColumn \in KeyColumns : LookupSession(keyColumn)

SpecLookup == InitLookup /\ [][NextLookup]_vars

(* SpecLogs: two async actions of one page session call addLog in any     *)
(* interleaving, the first often enough to overflow the window of LogLimit *)
(* entries.                                                                *)

\* addLog calls of the first action beyond LogLimit, and calls of the second
Overflow == 2

Navigations == 2

LogCallers == {"success", "info"}

CallsOf(caller) == IF caller = "success" THEN LogLimit + Overflow ELSE Navigations

\* the entries a caller has added so far
AddedBy(caller) == {k \in 1..Len(added) : added[k].level = caller}

\* a caller's next addLog: its entries are numbered, its level tells it apart
AddLog(caller) ==
    /\ Cardinality(AddedBy(caller)) < CallsOf(caller)
    /\ LET message == ToString(Cardinality(AddedBy(caller)) + 1)
       IN /\ Commit(addLogKeeping(Store, message, caller, LogLimit))
          /\ added' = Append(added, [message |-> message, level |-> caller])
    /\ UNCHANGED <<tasks, srvFile, offered, discarded, failures, last, engine,
                   activeSection, dashboard, bom, theme, seen, health>>

NextLogs == \E caller \in LogCallers : AddLog(caller)

SpecLogs == Init /\ [][NextLogs]_vars

(* SpecLive: the workflow on one file, with the backend answering every   *)
(* request it is sent (fetch has no timeout: a request the backend never   *)
(* answers is awaited forever) and every awaiting caller resumed.  The     *)
(* user drops a file only while the backend can still answer the upload,   *)
(* and moves between the steps with their own buttons and Back.            *)
CanAnswerUpload == srvFile < OneFile \/ failures < MaxFailures

NextLive ==
    \/ CanAnswerUpload /\ DropFile
    \/ ClickPreviewSheets
    \/ ClickContinueToCleaning
    \/ ClickCleanData
    \/ ClickContinueToLookup
    \/ ClickPerformLookup
    \/ ClickViewResults
    \/ ClickContinueToUpdates
    \/ ClickQuickPreview
    \/ ClickAutoProcess
    \/ ClickBack
    \/ ClickReset
    \/ Pipeline(OneFile, {"http"})

SpecLive == Init /\ [][NextLive]_vars /\ WF_vars(Pipeline(OneFile, {"http"}))

(* SpecHealth: the hook from mount on, with a backend that starts and     *)
(* stops at any time and a user who may press Retry.                       *)
NextHealth ==
    \/ InitialDelayFires
    \/ IntervalFires
    \/ ClickRetry
    \/ CheckCompletes
    \/ BackendChanges

SpecHealth == Init /\ [][NextHealth]_vars

(* SpecAuto: the hook left to itself: nobody presses Retry; timers that   *)
(* are set fire, and every health request ends (by its timeout at the      *)
(* latest).                                                                *)
NextAuto ==
    \/ InitialDelayFires
    \/ IntervalFires
    \/ CheckCompletes
    \/ BackendChanges

SpecAuto ==
    /\ Init /\ [][NextAuto]_vars
    /\ WF_vars(InitialDelayFires) /\ WF_vars(IntervalFires) /\ WF_vars(CheckCompletes)

(* SpecOverlap: one file is uploaded and previewSheets is called for its  *)
(* sheet pairs, also while a preview request is in flight.                 *)
NextOverlap ==
    \/ DropFile
    \/ \E i \in Tasks : UploadResponse(i, OneFile, {"http"})
    \/ CallPreviewSheets
    \/ \E i \in Tasks : PreviewResponse(i, {"http"})
    \/ ClickBack
    \/ ClickReset

SpecOverlap == Init /\ [][NextOverlap]_vars

---------------------------------------------------------------------------
(* Properties *)

\* the frame of the call whose request task i awaits, or that task i resumes
called(i) == tasks[i].stack[Len(tasks[i].stack)]

\* the stage outputs of a session
Outputs == {"cleanResult", "columnInsights", "lookupResult", "lookupInsights", "updateResult"}

\* the step just taken was the response to fn's request, and it was `outcome`
Answered(fn, outcome) == last.op = "response" /\ last.fn = fn /\ last.outcome = outcome

\* the step being taken is a failed response to the request of one of fns
Fails(fns) == last'.op = "response" /\ last'.outcome \in Failures /\ last'.fn \in fns

(* C1: a new upload discards the previous session.  Right after uploadFile *)
(* succeeded, previewData, cleanResult, columnInsights, lookupResult,      *)
(* lookupInsights and updateResult are null, availableColumns is empty,    *)
(* masterSheet and targetSheet are null, and every entry of the preview    *)
(* cache was fetched for the file just uploaded.                           *)
C1_NewUploadDiscardsSession ==
    Answered("uploadFile", "ok") =>
        /\ sessionData.previewData = NoPreviews
        /\ \A k \in Outputs : sessionData[k] = NoFile
        /\ sessionData.availableColumns = <<>>
        /\ sessionData.masterSheet = NoText
        /\ sessionData.targetSheet = NoText
        /\ \A k \in DOMAIN sessionData.cache : sessionData.cache[k].file = sessionData.fileId

StageActions ==
    {"uploadFile", "previewSheets", "cleanData", "generateColumnInsights",
     "performLookup", "generateLookupInsights", "processUpdates"}

(* C2: a failed stage leaves prior outputs intact.  When the request of a  *)
(* stage action fails, currentStep and every sessionData field except logs *)
(* have the values they had when the action was called.                    *)
C2_FailedStageLeavesOutputs ==
    [][Fails(StageActions) =>
            LET call == called(last'.task)
            IN /\ currentStep' = call.step
               /\ \A k \in DOMAIN sessionData \ {"logs"} : sessionData'[k] = call.sd[k]]_vars

\* a failed performLookup has returned in a session that holds cleaned data
C2_Witness ==
    /\ last.op = "response" /\ last.fn = "performLookup" /\ last.outcome \in Failures
    /\ sessionData.cleanResult # NoFile
    /\ sessionData.columnInsights # NoFile
    /\ currentStep = 4

ReportingActions == StageActions \cup {"configureSharePoint"}

\* the failed action's promise resolved, the message is in `error` and in the
\* newest log entry, at error level, and nothing is loading
Surfaced(message) ==
    /\ last'.ret = "resolved"
    /\ error' = message
    /\ sessionData'.logs # <<>>
    /\ sessionData'.logs[Len(sessionData'.logs)] = [message |-> message, level |-> "error"]
    /\ isLoading' = FALSE

(* C3 with the messages it lists: when the request of an action fails, the promise         *)
(* resolves, error is the response's error string when success = false     *)
(* carries one, otherwise the action's default or HTTP-status message, an  *)
(* error-level log entry with the same message is appended, and isLoading  *)
(* is false when the action returns.                                       *)
C3_FailureSurfacedAsStated ==
    [][Fails(ReportingActions) =>
            LET fn == last'.fn
            IN \/ /\ last'.outcome = "rejected"
                  /\ Surfaced(ServerError)
               \/ /\ last'.outcome # "rejected"
                  /\ \/ Surfaced(DefaultMessage(fn))
                     \/ Surfaced(DefaultMessage(fn) \o HttpStatus)]_vars

(* C3 with the message of each kind of failure: as above, and when fetch  *)
(* itself rejects (a network exception) the message is that exception's   *)
(* message.                                                                *)
C3_FailureSurfaced ==
    [][Fails(ReportingActions) =>
            LET fn == last'.fn
                outcome == last'.outcome
            IN CASE outcome = "rejected" -> Surfaced(ServerError)
                 [] outcome = "refused" -> Surfaced(DefaultMessage(fn))
                 [] outcome = "http" -> Surfaced(DefaultMessage(fn) \o HttpStatus)
                 [] outcome = "exception" -> Surfaced(NetworkError)]_vars

\* configureSharePoint's fetch rejected, and the action returned
C3_Witness ==
    /\ Answered("configureSharePoint", "exception")
    /\ last.ret = "resolved"
    /\ error = NetworkError
    /\ ~isLoading

SessionRequests ==
    {"upload", "preview-session", "clean-session", "column-insights",
     "get-lookup-columns", "lookup-session", "lookup-insights", "process-updates"}

\* the tasks whose session-mutating request is in flight
InFlight ==
    {i \in DOMAIN tasks : called(i).pc = "fetch" /\ Endpoint(called(i).fn) \in SessionRequests}

(* C4: requests against the session are serialized.  At most one           *)
(* session-mutating request is in flight, and while one is, only its       *)
(* response writes sessionData.                                            *)
C4_RequestsSerialized ==
    [][/\ Cardinality(InFlight') <= 1
       /\ (InFlight # {} /\ sessionData' # sessionData) =>
                (last'.op = "response" /\ last'.task \in InFlight)]_vars

\* Auto Process has its chained get-lookup-columns request in flight
C4_Witness ==
    /\ Cardinality(InFlight) = 1
    /\ \E i \in InFlight :
            /\ called(i).fn = "loadLookupColumns"
            /\ tasks[i].stack[1].fn = "quickProcess"
    /\ isLoading

(* C5: a lookup is never run on stale or missing cleaned data.  Whenever a *)
(* lookup-session request is in flight, cleanResult was produced for the   *)
(* file uploaded last, and the column sent was offered by                  *)
(* get-lookup-columns for that file.                                       *)
C5_LookupOnCurrentCleanedData ==
    \A i \in DOMAIN tasks :
        (called(i).fn = "performLookup" /\ called(i).pc = "fetch") =>
            /\ sessionData.fileId # NoFile
            /\ sessionData.cleanResult = sessionData.fileId
            /\ called(i).args[1] \in offered

\* the requests of task i so far all succeeded
AllSucceeded(i) == \A k \in 1..Len(tasks[i].trace) : tasks[i].trace[k].ev # "failed"

(* C6: Auto Process runs the complete pipeline with one click.  When       *)
(* quickProcess returns on a file of at least 2 sheets, every request it   *)
(* made having succeeded and get-lookup-columns having returned a column,  *)
(* previewData, cleanResult, columnInsights, lookupResult and              *)
(* lookupInsights are all non-null.                                        *)
C6_AutoProcessCompletes ==
    [][(/\ last'.op = "resume" /\ last'.fn = "quickProcess" /\ last'.ret = "resolved"
        /\ Len(sessionData.sheetNames) >= 2
        /\ AllSucceeded(last'.task)
        /\ sessionData.availableColumns # <<>>)
            => /\ sessionData'.previewData # NoPreviews
               /\ sessionData'.cleanResult # NoFile
               /\ sessionData'.columnInsights # NoFile
               /\ sessionData'.lookupResult # NoFile
               /\ sessionData'.lookupInsights # NoFile]_vars

\* upload, preview, clean, column insights, lookup and lookup insights have succeeded
AllStagesDone ==
    /\ sessionData.fileId # NoFile
    /\ sessionData.previewData # NoPreviews
    /\ \A k \in Outputs \ {"updateResult"} : sessionData[k] # NoFile

\* the step that renders MasterUpdates
UpdatesStep == 7

(* C7: the Updates step is reachable in the step-by-step workflow.  On the *)
(* Results step with every stage done and no action running, nextStep or   *)
(* goToStep takes the user to the step that renders MasterUpdates.         *)
C7_UpdatesReachable ==
    (AllStagesDone /\ currentStep = 6 /\ tasks = <<>>) =>
        \/ nextStep(Store).currentStep = UpdatesStep
        \/ goToStep(Store, UpdatesStep).currentStep = UpdatesStep

\* event k of task i's history is a request sent to endpoint ep
Sent(i, k, ep) == tasks[i].trace[k] = [ep |-> ep, ev |-> "sent"]

\* ... sent right after the request to endpoint `before` answered success
After(i, k, before) == k > 1 /\ tasks[i].trace[k - 1] = [ep |-> before, ev |-> "ok"]

\* every request task i sent before event k has been answered
Quiet(i, k) ==
    Cardinality({j \in 1..(k - 1) : tasks[i].trace[j].ev = "sent"})
        = Cardinality({j \in 1..(k - 1) : tasks[i].trace[j].ev # "sent"})

(* C8: stages run to completion in pipeline order without overlap.         *)
(* column-insights is sent only after clean-session answered success,      *)
(* get-lookup-columns only after column-insights answered success,         *)
(* lookup-insights only after lookup-session answered success; within      *)
(* quickProcess clean-session is sent only once the preview request (if    *)
(* any) has completed, and lookup-session only once cleanData's requests   *)
(* have all been answered.                                                 *)
C8_StagesInOrder ==
    \A i \in DOMAIN tasks : \A k \in 1..Len(tasks[i].trace) :
        /\ Sent(i, k, "column-insights") => After(i, k, "clean-session")
        /\ Sent(i, k, "get-lookup-columns") => After(i, k, "column-insights")
        /\ Sent(i, k, "lookup-insights") => After(i, k, "lookup-session")
        /\ tasks[i].stack[1].fn = "quickProcess" =>
            /\ Sent(i, k, "clean-session") =>
                    \/ k = 1
                    \/ k = 3 /\ tasks[i].trace[1] = [ep |-> "preview-session", ev |-> "sent"]
                             /\ tasks[i].trace[2].ep = "preview-session"
            /\ Sent(i, k, "lookup-session") =>
                    /\ Quiet(i, k)
                    /\ \E j \in 1..(k - 1) : Sent(i, j, "clean-session")
                    /\ tasks[i].trace[k - 1].ep \in
                            {"clean-session", "column-insights", "get-lookup-columns"}

\* Auto Process has sent lookup-session after cleanData's three requests
C8_Witness ==
    \E i \in DOMAIN tasks :
        /\ tasks[i].stack[1].fn = "quickProcess"
        /\ Len(tasks[i].trace) = 7
        /\ Sent(i, 1, "clean-session")
        /\ Sent(i, 5, "get-lookup-columns")
        /\ Sent(i, 7, "lookup-session")

\* the files whose data the store holds
Held ==
    {sessionData.fileId, sessionData.previewData.file}
        \cup {sessionData[k] : k \in Outputs}
        \cup {sessionData.cache[k].file : k \in DOMAIN sessionData.cache}

(* C9: reset discards the session.  Right after resetSession the store is  *)
(* in its initial state (currentStep 0, not loading, no error, the initial *)
(* sessionData), and from then on the store holds no data of a file whose  *)
(* session was discarded.                                                  *)
C9_ResetDiscardsSession ==
    /\ last.fn = "resetSession" =>
            /\ currentStep = 0
            /\ isLoading = FALSE
            /\ error = NoText
            /\ sessionData = initialSessionData
    /\ \A file \in Held : file = NoFile \/ file > discarded
    /\ discarded > 0 /\ sessionData.fileId = NoFile =>
            sessionData.availableColumns = <<>> /\ sessionData.sheetNames = <<>>

\* after a reset, the next file has gone through cleaning
C9_Witness ==
    /\ discarded > 0
    /\ sessionData.fileId > discarded
    /\ sessionData.cleanResult > discarded
    /\ sessionData.cache # EmptyCache

\* the requests task i has sent to endpoint ep
Requests(i, ep) == {k \in 1..Len(tasks[i].trace) : Sent(i, k, ep)}

PreviewCalled == last'.op = "call" /\ last'.fn = "previewSheets"

\* ... and it sent a preview-session request
PreviewRequested ==
    /\ Len(tasks') = Len(tasks) + 1
    /\ tasks'[Len(tasks')].trace = <<[ep |-> "preview-session", ev |-> "sent"]>>

\* the sheet pair previewSheets was called with
PreviewedPair ==
    IF PreviewRequested
    THEN tasks'[Len(tasks')].stack[1].args
    ELSE <<sessionData'.masterSheet, sessionData'.targetSheet>>

\* the previews of the pair were fetched for the file of the current session
FetchedInSession(pair) ==
    LET key == cacheKey(pair[1], pair[2])
    IN /\ key \in DOMAIN sessionData.cache
       /\ sessionData.cache[key].file = sessionData.fileId

(* C11: preview results are cached by sheet-name pair.  A call of          *)
(* previewSheets for a pair already fetched in the current session sends   *)
(* no request, sets previewData to the previews fetched for that pair and  *)
(* masterSheet/targetSheet to the arguments, and leaves isLoading false; a *)
(* call for a pair not yet fetched in the session sends one request; and a *)
(* successful preview-session response adds the pair's entry to the cache. *)
C11_PreviewsCachedByPair ==
    [][/\ PreviewCalled =>
            LET pair == PreviewedPair
            IN IF FetchedInSession(pair)
               THEN /\ ~PreviewRequested
                    /\ sessionData'.previewData = sessionData.cache[cacheKey(pair[1], pair[2])]
                    /\ sessionData'.masterSheet = pair[1]
                    /\ sessionData'.targetSheet = pair[2]
                    /\ isLoading' = FALSE
               ELSE PreviewRequested
       /\ (last'.op = "response" /\ last'.fn = "previewSheets" /\ last'.outcome = "ok") =>
            LET call == called(last'.task)
                key == cacheKey(call.args[1], call.args[2])
            IN /\ DOMAIN sessionData'.cache = DOMAIN sessionData.cache \cup {key}
               /\ key \notin DOMAIN sessionData.cache
               /\ sessionData'.cache[key] = sessionData'.previewData]_vars

(* C12: the dashboard updates when a file is uploaded.  Once uploadFile    *)
(* has succeeded, the Dashboard section on display has fetched or is       *)
(* fetching /dashboard/data and does not show 'No Data Available', and the *)
(* BOM Analysis section on display has fetched or is fetching              *)
(* /bom/analysis.                                                          *)
C12_ViewsUpdateOnUpload ==
    sessionData.fileId # NoFile =>
        /\ activeSection = "dashboard" =>
                /\ dashboard.fetching \/ dashboard.dashboardData # NoText
                /\ DashboardShows # "No Data Available"
        /\ activeSection = "bom" =>
                bom.fetching \/ bom.bomData # <<>>

\* the theme the page is to come up with: the saved one, else the system's
PreferredTheme ==
    IF seen.saved # NoText THEN seen.saved
    ELSE IF seen.prefersDark THEN "dark" ELSE "light"

ThemeApplied ==
    /\ theme.stored = theme.currentTheme
    /\ theme.dark = (theme.currentTheme = "dark")

\* once the mount effects have settled the theme is the saved one, else the
\* system preference
C13_SavedThemeRestored ==
    Len(seen.themes) = 1 => theme.currentTheme = PreferredTheme

\* after every toggle the stored value and the 'dark' class agree with the theme
C13_ToggleApplied ==
    Len(seen.themes) > 1 => ThemeApplied

\* two consecutive toggles restore the theme
C13_TwoTogglesRestore ==
    \A k \in 1..Len(seen.themes) : k + 2 <= Len(seen.themes) => seen.themes[k + 2] = seen.themes[k]

(* C13: the theme preference persists and round-trips.  Once the mount     *)
(* effects have settled the current theme is the value stored under        *)
(* 'etl-theme' before mount, else the system preference; after every       *)
(* toggleTheme the stored value and the 'dark' class agree with the        *)
(* current theme; two consecutive toggles restore the original theme.      *)
C13_ThemePersists ==
    /\ C13_SavedThemeRestored
    /\ C13_ToggleApplied
    /\ C13_TwoTogglesRestore

---------------------------------------------------------------------------
(* The lookup engine and its summary *)

\* the lookup the session stores, once one succeeded
Looked == engine.lookup.keyColumn # NoText

LookupResult == engine.lookup.result

LookupSummary == engine.lookup.summary

\* the rows of the stored result with one of the statuses
RowsWith(statuses) == {i \in 1..Len(LookupResult) : LookupResult[i].status \in statuses}

(* C14: for every lookup result set successful_matches + failed_matches =  *)
(* total_records, successful_matches counting the rows with status D, 0 or *)
(* X and failed_matches those with NOT_FOUND, and every result row has     *)
(* exactly one of these four statuses.                                     *)
C14_MatchesPartitionRecords ==
    /\ LookupSummary.successful_matches + LookupSummary.failed_matches
            = LookupSummary.total_records
    /\ LookupSummary.successful_matches = Cardinality(RowsWith({"D", "0", "X"}))
    /\ LookupSummary.failed_matches = Cardinality(RowsWith({"NOT_FOUND"}))
    /\ \A i \in 1..Len(LookupResult) :
            LookupResult[i].status \in {"D", "0", "X", "NOT_FOUND"}

\* a lookup matched rows through a Master row without a status, and missed others
C14_Witness ==
    /\ Looked
    /\ LookupSummary.failed_matches > 0
    /\ \E i \in RowsWith({"D", "0", "X"}) :
            engine.master.rows[LookupResult[i].matched]["STATUS"] = NoText

(* C15: match_rate is within [0, 100]; it is successful_matches /          *)
(* total_records * 100 rounded to one decimal when total_records > 0, and  *)
(* 0 when total_records = 0.  In tenths: within 0..1000 and no further     *)
(* than half a tenth from the quotient.                                    *)
C15_MatchRateRounded ==
    LET rate  == LookupSummary.match_rate
        total == LookupSummary.total_records
        exact == LookupSummary.successful_matches * 1000
    IN /\ rate \in 0..1000
       /\ total = 0 => rate = 0
       /\ total > 0 => /\ 2 * (rate * total - exact) <= total
                       /\ 2 * (exact - rate * total) <= total

\* two of three rows matched: 66.7
C15_Witness ==
    /\ Looked
    /\ LookupSummary.total_records = 3
    /\ LookupSummary.successful_matches = 2
    /\ LookupSummary.match_rate = 667

(* C16: lookup preserves Target order.  The result has exactly one row per *)
(* Target row and its i-th row carries the fields of the i-th Target row,  *)
(* for every key column present in both tables.                            *)
C16_TargetOrderPreserved ==
    \A keyColumn \in engine.master.columns \cap engine.target.columns \cap KeyColumns :
        LET rows == lookup(engine.master, engine.target, keyColumn).rows
        IN /\ Len(rows) = Len(engine.target.rows)
           /\ \A i \in 1..Len(rows) : rows[i].row = engine.target.rows[i]

\* a stored result for three Target rows, one of them without a key, in an
\* order that is neither that of the keys found nor that of the statuses
C16_Witness ==
    /\ Looked
    /\ LookupResult = lookup(engine.master, engine.target, engine.lookup.keyColumn).rows
    /\ Len(LookupResult) = 3
    /\ LookupResult[1].status = "NOT_FOUND" /\ isEmpty(LookupResult[1].row["PN"])
    /\ LookupResult[2].status # "NOT_FOUND"
    /\ LookupResult[3].status = "NOT_FOUND"

\* the key a cell spells, letter case and surrounding blanks apart
Spelled(cell) ==
    CASE cell.chars \in {<<"A", "1">>, <<"a", "1", " ">>} -> "A1"
      [] cell.chars \in {<<"A", "2">>, <<" ", "A", "2">>} -> "A2"
      [] cell.chars \in {<<"A", "3">>} -> "A3"
      [] cell.chars \in {<<"B", "1">>, <<"b", "1">>} -> "B1"
      [] OTHER -> "other"

\* the Master rows whose key a Target row's key equals
SameKey(row) ==
    LET keyColumn == engine.lookup.keyColumn
    IN {j \in 1..Len(engine.master.rows) :
            /\ engine.master.rows[j][keyColumn] # NullCell
            /\ Spelled(engine.master.rows[j][keyColumn]) = Spelled(row[keyColumn])}

HasKey(row) ==
    /\ row[engine.lookup.keyColumn] # NullCell
    /\ row[engine.lookup.keyColumn].chars # <<>>

Scenario1 ==
    /\ engine.master.rows = <<[PN |-> Text(<<"A", "1">>), STATUS |-> "D"],
                              [PN |-> Text(<<"A", "2">>), STATUS |-> "X"]>>
    /\ engine.target.rows = <<[PN |-> Text(<<"a", "1", " ">>)],
                              [PN |-> Text(<<" ", "A", "2">>)],
                              [PN |-> Text(<<"A", "3">>)]>>
    /\ engine.lookup.keyColumn = "PN"

(* C17: key matching is insensitive to case and surrounding whitespace and *)
(* null keys never match.  A Target row gets a status of {D, 0, X} exactly *)
(* when its key is non-null, non-empty and equals some Master key after    *)
(* trimming and case-folding both, and NOT_FOUND otherwise; Master keys    *)
(* [A1, A2] with statuses [D, X] and Target keys ['a1 ', ' A2', 'A3']      *)
(* yield [D, X, NOT_FOUND].                                                *)
C17_KeysMatchNormalized ==
    Looked =>
        /\ \A i \in 1..Len(LookupResult) :
                LET row == LookupResult[i].row
                IN IF HasKey(row) /\ SameKey(row) # {}
                   THEN LookupResult[i].status \in {"D", "0", "X"}
                   ELSE LookupResult[i].status = "NOT_FOUND"
        /\ Scenario1 =>
                [i \in 1..3 |-> LookupResult[i].status] = <<"D", "X", "NOT_FOUND">>

C17_Witness ==
    /\ Scenario1
    /\ Len(LookupResult) = 3
    /\ LookupResult[1].matched = 1 /\ LookupResult[2].matched = 2

(* C18: with duplicate Master keys the first occurrence wins.  When        *)
(* several Master rows share a normalized key every Target row with that   *)
(* key receives the status of the first of them in Master order, a         *)
(* DuplicateKeyWarning is recorded, and the lookup still completes for all *)
(* Target rows.                                                            *)
C18_FirstOccurrenceWins ==
    Looked =>
        \A i \in 1..Len(engine.target.rows) :
            LET shared == IF HasKey(engine.target.rows[i])
                          THEN SameKey(engine.target.rows[i]) ELSE {}
            IN Cardinality(shared) > 1 =>
                /\ Len(LookupResult) = Len(engine.target.rows)
                /\ \E first \in shared :
                        /\ \A j \in shared : first <= j
                        /\ LookupResult[i].status = statusOf(engine.master.rows[first])
                /\ "DuplicateKeyWarning" \in engine.lookup.warnings

\* two Master rows spell one key differently and carry different statuses
C18_Witness ==
    /\ Looked
    /\ engine.lookup.keyColumn = "PN"
    /\ Len(engine.master.rows) = 2
    /\ engine.master.rows[1]["PN"] # engine.master.rows[2]["PN"]
    /\ engine.master.rows[1]["STATUS"] = "X" /\ engine.master.rows[2]["STATUS"] = "D"
    /\ \E i \in 1..Len(LookupResult) : LookupResult[i].status = "X"
    /\ "DuplicateKeyWarning" \in engine.lookup.warnings

\* the step being taken answers a performLookup request
LookupAnswered == last'.op = "response" /\ last'.fn = "performLookup"

\* the request reached the engine: the server did not fail with an error status
EngineAnswered == LookupAnswered /\ last'.outcome \in {"ok", "rejected"}

\* the column that request asked for
LookupColumn == top(Machine(tasks[last'.task])).args[1]

(* C19: a lookup on a key column absent from the cleaned Master or Target  *)
(* fails with InvalidColumnError, produces no LookupResult and leaves the  *)
(* Session (the cleaned tables and the stored LookupResult/LookupSummary)  *)
(* unchanged; on the client a failed performLookup leaves lookupResult,    *)
(* lookupInsights and currentStep unchanged.                               *)
C19_InvalidColumnLeavesSession ==
    [][LookupAnswered =>
        /\ (/\ EngineAnswered
            /\ \/ LookupColumn \notin engine.master.columns
               \/ LookupColumn \notin engine.target.columns) =>
              /\ engine'.response = [keyColumn |-> LookupColumn, success |-> FALSE,
                                     error |-> "InvalidColumnError"]
              /\ lookup(engine.master, engine.target, LookupColumn).rows = <<>>
              /\ engine'.master = engine.master
              /\ engine'.target = engine.target
              /\ engine'.lookup = engine.lookup
              /\ last'.outcome = "rejected"
        /\ last'.outcome \in Failures =>
              /\ sessionData'.lookupResult = sessionData.lookupResult
              /\ sessionData'.lookupInsights = sessionData.lookupInsights
              /\ currentStep' = currentStep]_vars

\* a lookup on REF, which the Target lacks, failed after one on PN had succeeded
C19_Witness ==
    /\ Answered("performLookup", "rejected")
    /\ engine.response = [keyColumn |-> "REF", success |-> FALSE,
                          error |-> "InvalidColumnError"]
    /\ "REF" \in engine.master.columns /\ "REF" \notin engine.target.columns
    /\ engine.lookup.keyColumn = "PN"
    /\ Len(engine.lookup.result) = 3
    /\ sessionData.lookupResult # NoFile
    /\ sessionData.lookupInsights # NoFile
    /\ error = ServerError

---------------------------------------------------------------------------
(* BOM Analysis *)

\* the four per-status counts of a record of counts
CountedParts(counts) ==
    counts.activeParts + counts.pendingParts + counts.inactiveParts + counts.notFoundParts

\* BOMAnalysis shows data it has loaded
BomLoaded == bom.mounted /\ ~bom.loading /\ bom.bomData # <<>>

---------------------------------------------------------------------------
(* C21: locked steps are never shown.  In every reachable state            *)
(* 0 <= currentStep <= getMaxAllowedStep(), whatever sequence of store     *)
(* actions and of 'Continue to Cleaning' is run and whatever the backend   *)
(* answers.                                                                *)
C21_StepWithinAllowed ==
    currentStep >= 0 /\ currentStep <= getMaxAllowedStep(Store)

(* C22: stage outputs exist only in pipeline order.  In every reachable    *)
(* state each stage output that is non-null has the output of the stage    *)
(* before it non-null too: previewData needs fileId, cleanResult needs     *)
(* previewData, columnInsights needs cleanResult, lookupResult needs       *)
(* columnInsights, lookupInsights needs lookupResult and updateResult      *)
(* needs lookupInsights.                                                   *)
C22_OutputsInPipelineOrder ==
    /\ sessionData.previewData # NoPreviews => sessionData.fileId # NoFile
    /\ sessionData.cleanResult # NoFile => sessionData.previewData # NoPreviews
    /\ sessionData.columnInsights # NoFile => sessionData.cleanResult # NoFile
    /\ sessionData.lookupResult # NoFile => sessionData.columnInsights # NoFile
    /\ sessionData.lookupInsights # NoFile => sessionData.lookupResult # NoFile
    /\ sessionData.updateResult # NoFile => sessionData.lookupInsights # NoFile

(* C23: the activity log is bounded and keeps the newest entries.  After   *)
(* any sequence of addLog calls, also interleaved ones of different        *)
(* actions, sessionData.logs has at most 50 entries and they are the       *)
(* entries added last, in the order they were added: none of them is lost. *)
C23_LogKeepsNewest ==
    /\ Len(sessionData.logs) <= LogLimit
    /\ sessionData.logs = LastN(added, LogLimit)

\* the window has overflowed with entries of both callers in it
C23_Witness ==
    /\ Len(added) > LogLimit
    /\ \A caller \in LogCallers :
            \E k \in 1..Len(sessionData.logs) : sessionData.logs[k].level = caller
    /\ sessionData.logs[1] # added[1]

\* a store API action awaits the response of its request
AwaitingResponse == \E i \in DOMAIN tasks : Waits(i)

(* C24: isLoading tracks in-flight work.  isLoading is true in every state *)
(* in which a store API action awaits a backend response, the chained      *)
(* column-insights, get-lookup-columns and lookup-insights requests        *)
(* included, and false whenever no action is in flight.                    *)
LoadingTracksRequests ==
    /\ AwaitingResponse => isLoading
    /\ tasks = <<>> => ~isLoading

\* every action in flight eventually returns, on success, failure or cache
\* hit, with isLoading = false
C24_LoadingTracksWork ==
    /\ []LoadingTracksRequests
    /\ (tasks # <<>>) ~> (tasks = <<>> /\ ~isLoading)

\* the chained get-lookup-columns request is awaited
C24_Witness ==
    \E i \in DOMAIN tasks : Waits(i) /\ called(i).fn = "loadLookupColumns" /\ isLoading

\* the step just taken completes a health check
CheckCompleted == health'.did = "response" /\ health' # health

(* C25: automatic health retries are bounded and reset on success.         *)
(* retryCount never exceeds 10; a check that receives an OK response sets  *)
(* it to 0 and no other completed check changes it; a manual checkHealth   *)
(* does not increment it; and when a check completes (OK, non-OK,          *)
(* exception or timeout abort) isChecking is false and isHealthy is true   *)
(* exactly when the response was OK.                                       *)
C25_RetriesBoundedAndReset ==
    /\ [](health.retryCount <= MaxRetries)
    /\ [][/\ CheckCompleted =>
                /\ health'.retryCount = IF health'.answer = "ok" THEN 0 ELSE health.retryCount
                /\ ~health'.isChecking
                /\ health'.isHealthy = (health'.answer = "ok")
          /\ health'.did = "manual" /\ health' # health =>
                health'.retryCount = health.retryCount]_vars

\* after the last automatic retry a check was answered OK and reset the count
C25_Witness ==
    /\ health.did = "response" /\ health.answer = "ok"
    /\ health.was = MaxRetries
    /\ health.retryCount = 0 /\ health.isHealthy /\ ~health.isChecking

(* C26: the health indicator recovers on its own.  If from some point on   *)
(* the backend answers every health request with OK, isHealthy eventually  *)
(* becomes true without Retry being pressed, however many checks failed    *)
(* before; and while healthy the hook keeps checking, so that an outage    *)
(* that lasts eventually sets isHealthy to false.                          *)
C26_HealthRecovers ==
    /\ ([]health.up) ~> health.isHealthy
    /\ ([]~health.up) ~> ~health.isHealthy

\* the step just taken is quickProcess appending 'Auto-process completed!'
AutoProcessReported ==
    /\ last'.op = "resume" /\ last'.fn = "quickProcess" /\ last'.ret = "resolved"
    /\ sessionData'.logs # <<>>
    /\ sessionData'.logs[Len(sessionData'.logs)] =
            [message |-> "Auto-process completed!", level |-> "success"]

\* how a request of task i to endpoint ep ended
Ended(i, ep, ev) == \E k \in 1..Len(tasks[i].trace) : tasks[i].trace[k] = [ep |-> ep, ev |-> ev]

(* C27: Auto Process reports success only when it succeeded.  quickProcess *)
(* appends the success entry 'Auto-process completed!' only if a           *)
(* clean-session and a lookup-session request of this invocation both      *)
(* succeeded, and not if its preview, clean or lookup request failed or    *)
(* the lookup was skipped.                                                 *)
C27_SuccessOnlyWhenSucceeded ==
    [][AutoProcessReported =>
            /\ Ended(last'.task, "clean-session", "ok")
            /\ Ended(last'.task, "lookup-session", "ok")
            /\ \A ep \in {"preview-session", "clean-session", "lookup-session"} :
                    ~Ended(last'.task, ep, "failed")]_vars

(* C28: cached previews are never lost.  Once the preview of a sheet pair  *)
(* has been fetched, its cache entry stays in sessionData.cache, unchanged, *)
(* until resetSession, in every interleaving of previewSheets calls, two   *)
(* calls for different pairs with overlapping requests included.           *)
C28_CacheEntriesKept ==
    [][last'.fn # "resetSession" =>
            \A key \in DOMAIN sessionData.cache :
                /\ key \in DOMAIN sessionData'.cache
                /\ sessionData'.cache[key] = sessionData.cache[key]]_vars

\* the step just taken is the response of the get-lookup-columns request that
\* generateColumnInsights sends once column-insights has succeeded
ColumnsAnswered == last'.op = "response" /\ last'.fn = "loadLookupColumns"

\* the failure is shown to the user: error is set or the newest log entry is
\* of level error
FailureReported ==
    \/ error' # NoText
    \/ /\ sessionData'.logs # <<>>
       /\ sessionData'.logs[Len(sessionData'.logs)].level = "error"

(* C29: lookup columns reflect the backend or the failure is reported.     *)
(* When get-lookup-columns has answered after a successful column-insights *)
(* request, availableColumns is the list the backend returned for the      *)
(* current session, or, the request having failed (exception, non-OK       *)
(* status, success = false), the failure is reported through error or an   *)
(* error-level log entry: availableColumns never silently keeps a list     *)
(* loaded earlier.                                                         *)
C29_ColumnsCurrentOrReported ==
    [][ColumnsAnswered =>
            IF last'.outcome = "ok"
            THEN Range(sessionData'.availableColumns) \subseteq offered'
            ELSE FailureReported]_vars

\* the step just taken is the successful response of a stage action's request
StageSucceeded == last'.op = "response" /\ last'.outcome = "ok" /\ last'.fn \in StageActions

(* C30: a successful processUpdates keeps the user on the Updates step.    *)
(* When processUpdates has succeeded, updateResult holds the response and  *)
(* currentStep is the step that renders MasterUpdates (7); and no          *)
(* successful stage action moves currentStep to a step earlier than the    *)
(* one it was triggered from.                                              *)
C30_UpdatesStepKept ==
    [][StageSucceeded =>
            /\ currentStep' >= called(last'.task).step
            /\ last'.fn = "processUpdates" =>
                    /\ sessionData'.updateResult # NoFile
                    /\ currentStep' = UpdatesStep]_vars

====
